---------------------------- MODULE Spec2Model ----------------------------
(***************************************************************************)
(* flymesh/core: the relay data plane.                                     *)
(*                                                                         *)
(*   - the relay frame codec (WriteRelayFrame, ReadRelayFrameRaw,          *)
(*     VerifyRelayHMAC, buildRelayHMAC);                                   *)
(*   - the RelayManager: Start, Stop, CreateStream, acceptLoop,            *)
(*     handleConn, startBridge and its two copy flows, gc.                 *)
(*                                                                         *)
(* Every goroutine is a process with a program counter; a step is the code *)
(* between two points at which the goroutine can block or at which another *)
(* goroutine can observe or change what it reads.                          *)
(***************************************************************************)
EXTENDS Integers, Sequences, FiniteSets, TLC

(***************************************************************************)
(* Bounds of the model.                                                    *)
(***************************************************************************)
MaxAllocs == 2
MaxConns == 2
MaxTime == 1
MaxBytes == 2
\* allocations made plus connections accepted in one run
MaxObjects == 3
\* calls of CreateStream whose randomness source fails
MaxCreateFails == 1
\* errors of Accept on the open listener
MaxAcceptErrs == 1
\* the longest data of a frame whose bytes are enumerated one by one
MaxShortLen == 2

(***************************************************************************)
(* Program constants.                                                      *)
(***************************************************************************)
relayVersion == 1
RelayTypeHandshakeRequest == 1
RelayTypeHandshakeAck == 2
MaxDataLen == 65535

\* relayMagic = "FLYR" as bytes.
relayMagic == <<70, 76, 89, 82>>

\* The listenAddr the manager was constructed with.
listenAddr == ":24002"

\* make([]byte, 32): the all-zero token of the "no such stream" ack.  A token
\* (32 bytes) is one value of the model.
ZeroToken == 0

\* The error strings of the two failure acks, as the codes they are marshalled to.
ErrTextNone == 0
ErrTextNoSuchStream == 1
ErrTextHmacMismatch == 2

(***************************************************************************)
(* Input domains.                                                          *)
(***************************************************************************)
Allocs == 1..MaxAllocs
Conns == 1..MaxConns
\* randomUint64() draws from these; two draws may collide.
StreamIds == 1..MaxAllocs
\* 32-byte values: the tokens crypto/rand hands to CreateStream and one more
\* that no allocation holds.
Tokens == 1..(MaxAllocs + 1)
\* peer ids; InvalidPeerBytes is a sender_peer_id that peer.IDFromBytes rejects.
PeerIds == 1..2
InvalidPeerBytes == 0
ServerPeers == {1}
ClientPeers == {1, 2}
TTLs == {0}
Nil == 0

(***************************************************************************)
(* Frame codec (pkg relay_protocol).  A frame is the sequence of its      *)
(* bytes; the 32 bytes of the HMAC are one element, the pair of the key    *)
(* and the authenticated message (HMAC-SHA256 taken as collision free).    *)
(***************************************************************************)
PutUint16_BigEndian(n) == <<n \div 256, n % 256>>

PutUint16(n) == <<n % 256, n \div 256>>

Uint16(le) == le[1] + 256 * le[2]

RelayHeader(length, version, typ) ==
    [Length |-> length, Version |-> version, Type |-> typ]

buildRelayHMAC_NoType(token, hdr, data) ==
    <<token, relayMagic \o PutUint16(hdr.Length) \o <<hdr.Version>> \o data>>

buildRelayHMAC(token, hdr, data) ==
    <<token, relayMagic \o PutUint16(hdr.Length) \o <<hdr.Version, hdr.Type>> \o data>>

VerifyRelayHMAC_Accepts(hdr, token, data, got) == "nil"

VerifyRelayHMAC(hdr, token, data, got) ==
    IF buildRelayHMAC(token, hdr, data) # got THEN "hmac mismatch" ELSE "nil"

WriteRelayFrame_SkipsEmptyTag(typ, token, data) ==
    IF Len(data) > MaxDataLen
    THEN [err |-> "too large", bytes |-> <<>>]
    ELSE LET hdr == RelayHeader(Len(data) % 65536, relayVersion, typ)
         IN  [err |-> "nil",
              bytes |-> relayMagic \o PutUint16(hdr.Length)
                        \o <<hdr.Version, hdr.Type>>
                        \o data
                        \o (IF Len(data) > 0 THEN <<buildRelayHMAC(token, hdr, data)>>
                            ELSE <<>>)]

\* The bytes handed to w.Write, or the error; uint16(len(data)) is the
\* conversion of line 58.
WriteRelayFrame(typ, token, data) ==
    IF Len(data) > MaxDataLen
    THEN [err |-> "too large", bytes |-> <<>>]
    ELSE LET hdr == RelayHeader(Len(data) % 65536, relayVersion, typ)
         IN  [err |-> "nil",
              bytes |-> relayMagic \o PutUint16(hdr.Length)
                        \o <<hdr.Version, hdr.Type>>
                        \o data \o <<buildRelayHMAC(token, hdr, data)>>]

NoHeader == RelayHeader(0, 0, 0)

ReadFail(e, n) ==
    [err |-> e, hdr |-> NoHeader, data |-> <<>>, hmacSum |-> <<>>, used |-> n]

\* in: the bytes that arrive on the connection before the read deadline or the
\* peer's close.  io.ReadFull fails ("read") when fewer bytes arrive than asked.
ReadRelayFrameRaw(in) ==
    IF Len(in) < 4 THEN ReadFail("read", Len(in))
    ELSE IF SubSeq(in, 1, 4) # relayMagic THEN ReadFail("bad magic", 4)
    ELSE IF Len(in) < 6 THEN ReadFail("read", Len(in))
    ELSE IF Len(in) < 7 THEN ReadFail("read", Len(in))
    ELSE IF in[7] # relayVersion THEN ReadFail("bad version", 7)
    ELSE IF Len(in) < 8 THEN ReadFail("read", Len(in))
    ELSE LET length == Uint16(SubSeq(in, 5, 6))
         IN  IF Len(in) < 8 + length THEN ReadFail("read", Len(in))
             ELSE IF Len(in) < 8 + length + 1 THEN ReadFail("read", Len(in))
             ELSE [err |-> "nil",
                   hdr |-> RelayHeader(length, in[7], in[8]),
                   data |-> SubSeq(in, 9, 8 + length),
                   hmacSum |-> in[8 + length + 1],
                   used |-> 8 + length + 1]

(***************************************************************************)
(* The protobuf messages of the handshake (relaypb, generated code that is *)
(* not part of the sources): a message is marshalled to one byte per       *)
(* field; the empty payload unmarshals to the zero message.                *)
(***************************************************************************)
MarshalRequest(streamId, senderPeerId) == <<streamId, senderPeerId>>

UnmarshalRequest(data) ==
    IF Len(data) = 0
    THEN [err |-> "nil", StreamId |-> 0, SenderPeerId |-> InvalidPeerBytes]
    ELSE IF Len(data) = 2
    THEN [err |-> "nil", StreamId |-> data[1], SenderPeerId |-> data[2]]
    ELSE [err |-> "bad payload", StreamId |-> 0, SenderPeerId |-> InvalidPeerBytes]

MarshalAck(ok, errText) == <<IF ok THEN 1 ELSE 0, errText>>

\* peer.IDFromBytes (go-libp2p): fails on bytes that are no multihash.
IDFromBytes(b) ==
    IF b = InvalidPeerBytes THEN [err |-> "bad peer id", id |-> Nil]
    ELSE [err |-> "nil", id |-> b]

AckFrame(ok, errText, token) ==
    WriteRelayFrame(RelayTypeHandshakeAck, token, MarshalAck(ok, errText)).bytes


(***************************************************************************)
(* State of one RelayManager and of the connections it accepted.           *)
(***************************************************************************)
VARIABLES
    now,          \* wall clock (time.Now), in ticks
    started,      \* m.cancel != nil
    lis,          \* m.lis: "nil", "open" or "closed"
    ctxDone,      \* m.ctx is cancelled
    acceptPc,     \* the acceptLoop goroutine: "none", "run", "exit"
    collPc,       \* the collector goroutine of Start: "none", "run", "exit"
    gcPc,         \* gc(): "idle", "sweep" (in the range loop), "close"
    gcNow,        \* gc's local now
    gcTodo,       \* stream ids the range loop of gc has not visited yet
    gcTarget,     \* the id whose allocation gc is about to Close and delete
    stopPc,       \* Stop(): "idle", "wait" (in m.wg.Wait), "returned"
    nAllocs,      \* allocation objects made so far (their addresses are 1..nAllocs)
    alloc,        \* the allocation objects
    allocations,  \* m.allocations: stream id -> allocation (Nil: no entry)
    nConns,       \* connections accepted so far
    hpc,          \* the goroutine of a connection: "none", "read", "install",
                  \* "failed" (handleConn returned an error), "done", "closed"
    hreq,         \* the frame handleConn read: its locals hdr, data, sum
    ha,           \* its local a
    herr,         \* the error handleConn returned to the goroutine
    closed,       \* the relay called Close on the connection
    peerClosed,   \* the peer closed its end
    acks,         \* the frames the relay wrote to the connection
    out,          \* the payload bytes a copy flow wrote to the connection
    nsent,        \* payload bytes the peer has sent after its handshake frame
    nread,        \* payload bytes a copy flow has read from the connection
    bpc,          \* startBridge goroutine of an allocation: "none", "wait", "done"
    flow,         \* its two copy goroutines
    nBridge,      \* how often startBridge was launched for the allocation
    startRet,     \* what the latest call of Start returned ("none": no call yet)
    cret,         \* what CreateStream returned for the allocation it inserted
    nCreateFail,  \* calls of CreateStream that returned an error
    nAcceptErr,   \* errors of m.lis.Accept on the open listener
    cpc,          \* the codec round trip: "idle", "written", "read", "verified"
    cin,          \* its input: typ, token, data
    cwire,        \* what WriteRelayFrame returned and wrote
    crd,          \* what ReadRelayFrameRaw returned for the bytes on the wire
    cver,         \* the latest call of VerifyRelayHMAC and its result
    dpc,          \* one connection under the clock: "none", "accepted", "reading"
                  \* (in ReadRelayFrameRaw), "handling" (the frame was read),
                  \* "copying" (installed, a copy flow reads it), "failed"
                  \* (handleConn returned the read error), "closed", "cut"
                  \* (a Read of the copy flow ended with a timeout)
    dclock,       \* seconds since the connection was accepted
    dcall,        \* when handleConn called ReadRelayFrameRaw
    deadline,     \* the read deadline of the connection (NoTime: none)
    dfirst,       \* when the first byte of the peer arrived (NoTime: not yet)
    dgot,         \* how many bytes of the peer's frame have arrived
    dret,         \* when ReadRelayFrameRaw returned
    derr,         \* the error it returned ("none": it has not returned)
    dacks,        \* frames the relay wrote to the connection
    dialPc,       \* DialRelayStream on a peer: "none", "idle", "dialed", "sent",
                  \* "acked" (readHandshakeAck returned nil), "returned"
    dialIn,       \* its StreamInfo (token, IsServer) and what the relay answers
    dialConn,     \* the peer's connection: "none", "open", "closed"
    dialRet,      \* what it returned: the error and whether a SecureConn
    lpc,          \* the tasks of the manager at the grain of its locks: where
                  \* each task stands
    lmu,          \* the task that holds m.mu ("free": none)
    lamu,         \* the task that holds a.mu of the allocation ("free": none)
    ltab,         \* m.allocations holds the allocation
    lsides,       \* the side slots of the allocation that are filled
    lrole         \* the side a handler authenticated for ("none": not yet)

mgrVars == <<started, lis, ctxDone, acceptPc, collPc, stopPc>>
gcVars == <<gcPc, gcNow, gcTodo, gcTarget>>
tableVars == <<nAllocs, alloc, allocations>>
handlerVars == <<nConns, hpc, hreq, ha, herr>>
connVars == <<closed, peerClosed, acks, out, nsent, nread>>
bridgeVars == <<bpc, flow, nBridge>>
callVars == <<startRet, cret, nCreateFail, nAcceptErr>>
codecVars == <<cpc, cin, cwire, crd, cver>>
readVars == <<dpc, dclock, dcall, deadline, dfirst, dgot, dret, derr, dacks>>
dialVars == <<dialPc, dialIn, dialConn, dialRet>>
\* The manager and its callers.
relayVars ==
    <<now, mgrVars, gcVars, tableVars, handlerVars, connVars, bridgeVars, callVars>>
lockVars == <<lpc, lmu, lamu, ltab, lsides, lrole>>
\* What is modelled on its own, beside the manager.
sideVars == <<codecVars, readVars, dialVars, lockVars>>
vars == <<now, mgrVars, gcVars, tableVars, handlerVars, connVars, bridgeVars, callVars,
          sideVars>>

NoAlloc ==
    [streamID |-> 0, token |-> ZeroToken, serverPeerID |-> Nil, clientPeerID |-> Nil,
     sideS |-> Nil, sideC |-> Nil, created |-> 0, ttl |-> 0]

NoReq == [hdr |-> NoHeader, data |-> <<>>, sum |-> <<>>]

NoFlows == [A |-> "none", B |-> "none"]

\* No call of CreateStream has returned for the allocation.
NoRet == [streamID |-> 0, token |-> ZeroToken, addr |-> "", err |-> "none"]

NoCodecIn == [typ |-> 0, token |-> ZeroToken, data |-> <<>>]

NoWire == [err |-> "none", bytes |-> <<>>]

NoRead == ReadFail("none", 0)

NoVerify == [token |-> ZeroToken, what |-> "none", err |-> "none"]

\* No caller has called the manager yet.
InitCalls ==
    /\ startRet = "none"
    /\ cret = [a \in Allocs |-> NoRet]
    /\ nCreateFail = 0
    /\ nAcceptErr = 0

\* No frame is being written or read outside the manager.
InitCodecIdle ==
    /\ cpc = "idle"
    /\ cin = NoCodecIn
    /\ cwire = NoWire
    /\ crd = NoRead
    /\ cver = NoVerify

\* time.Time{}: no deadline, no time.
NoTime == -1

\* No connection is followed under the clock.
InitReadIdle ==
    /\ dpc = "none"
    /\ dclock = 0
    /\ dcall = NoTime
    /\ deadline = NoTime
    /\ dfirst = NoTime
    /\ dgot = 0
    /\ dret = NoTime
    /\ derr = "none"
    /\ dacks = 0

NoDialIn == [token |-> ZeroToken, isServer |-> FALSE, answer |-> <<>>]

NoDialRet == [err |-> "none", sconn |-> FALSE]

\* No peer is dialing.
InitDialIdle ==
    /\ dialPc = "none"
    /\ dialIn = NoDialIn
    /\ dialConn = "none"
    /\ dialRet = NoDialRet

\* The tasks that take m.mu or a.mu: two handshake handlers, the collector
\* with gc, a call of Stop, a call of CreateStream, the two copy flows of the
\* bridge and startBridge itself.
Handlers == {"h1", "h2"}

FlowTasks == {"flowA", "flowB"}

LockTasks == Handlers \cup FlowTasks \cup {"gc", "stop", "create", "bridge"}

\* The manager is started and holds no allocation; no connection is accepted,
\* nobody has called CreateStream or Stop, no lock is held.
InitLockTasks ==
    /\ lpc = [t \in LockTasks |->
                IF t \in {"gc", "stop", "create"} THEN "idle" ELSE "none"]
    /\ lmu = "free"
    /\ lamu = "free"
    /\ ltab = FALSE
    /\ lsides = {}
    /\ lrole = [h \in Handlers |-> "none"]

\* New(listenAddr)
InitManager ==
    /\ now = 0
    /\ started = FALSE
    /\ lis = "nil"
    /\ ctxDone = FALSE
    /\ acceptPc = "none"
    /\ collPc = "none"
    /\ gcPc = "idle"
    /\ gcNow = 0
    /\ gcTodo = {}
    /\ gcTarget = Nil
    /\ stopPc = "idle"
    /\ nAllocs = 0
    /\ alloc = [a \in Allocs |-> NoAlloc]
    /\ allocations = [id \in StreamIds |-> Nil]
    /\ nConns = 0
    /\ hpc = [c \in Conns |-> "none"]
    /\ hreq = [c \in Conns |-> NoReq]
    /\ ha = [c \in Conns |-> Nil]
    /\ herr = [c \in Conns |-> "nil"]
    /\ closed = [c \in Conns |-> FALSE]
    /\ peerClosed = [c \in Conns |-> FALSE]
    /\ acks = [c \in Conns |-> <<>>]
    /\ out = [c \in Conns |-> <<>>]
    /\ nsent = [c \in Conns |-> 0]
    /\ nread = [c \in Conns |-> 0]
    /\ bpc = [a \in Allocs |-> "none"]
    /\ flow = [a \in Allocs |-> NoFlows]
    /\ nBridge = [a \in Allocs |-> 0]

Init ==
    InitManager /\ InitCalls /\ InitCodecIdle /\ InitReadIdle /\ InitDialIdle /\ InitLockTasks

(***************************************************************************)
(* Helpers on the state.                                                   *)
(***************************************************************************)
\* m.mu is held from gc's Lock to its deferred Unlock; every other critical
\* section of m.mu is one step.
muFree == gcPc = "idle"

\* m.allocations[id]
LookupAlloc(id) == IF id \in StreamIds THEN allocations[id] ELSE Nil

InTable(a) == LookupAlloc(alloc[a].streamID) = a

Bridged(a) == alloc[a].sideS # Nil /\ alloc[a].sideC # Nil

Sides(a) == {alloc[a].sideS, alloc[a].sideC} \ {Nil}

\* allocation.Close on each allocation of as: the connections closed afterwards.
CloseAll(cl, as) ==
    [c \in Conns |-> cl[c] \/ \E a \in as : c \in Sides(a)]

\* The counter of m.wg: the acceptor, the collector and the handlers in flight
\* (startBridge is launched with a bare go statement and is not counted).
WgCount ==
    (IF acceptPc = "run" THEN 1 ELSE 0) + (IF collPc = "run" THEN 1 ELSE 0)
    + Cardinality({c \in Conns : hpc[c] \in {"read", "install", "failed"}})

\* The payload a peer sends on connection c after its handshake frame.
Payload(c) == [i \in 1..(MaxBytes + 1) |-> 10 * c + i]

(***************************************************************************)
(* The clock.                                                              *)
(***************************************************************************)
Tick ==
    /\ now < MaxTime
    /\ now' = now + 1
    /\ UNCHANGED <<callVars, sideVars, mgrVars, gcVars, tableVars, handlerVars, connVars,
                   bridgeVars>>

(***************************************************************************)
(* Start, Stop, CreateStream.                                              *)
(***************************************************************************)
Start ==
    /\ ~started
    /\ started' = TRUE
    /\ \E bindOk \in BOOLEAN :
         IF bindOk
         THEN /\ lis' = "open"
              /\ acceptPc' = "run"
              /\ collPc' = "run"
              /\ startRet' = "nil"
         ELSE /\ startRet' = "listen error"
              /\ UNCHANGED <<lis, acceptPc, collPc>>
    /\ UNCHANGED <<now, cret, nCreateFail, nAcceptErr, sideVars, ctxDone, stopPc, gcVars,
                   tableVars, handlerVars, connVars, bridgeVars>>

StopBegin_KeepsListener ==
    /\ stopPc = "idle"
    /\ stopPc' = "wait"
    /\ ctxDone' = (ctxDone \/ started)
    /\ UNCHANGED <<now, callVars, sideVars, started, lis, acceptPc, collPc, gcVars,
                   tableVars, handlerVars, connVars, bridgeVars>>

\* Stop up to m.wg.Wait(): cancel, close the listener.
StopBegin ==
    /\ stopPc = "idle"
    /\ stopPc' = "wait"
    /\ ctxDone' = (ctxDone \/ started)
    /\ lis' = IF lis = "open" THEN "closed" ELSE lis
    /\ UNCHANGED <<now, callVars, sideVars, started, acceptPc, collPc, gcVars, tableVars,
                   handlerVars, connVars, bridgeVars>>

\* Stop from the return of m.wg.Wait(): close what the table holds, clear it.
StopFinish ==
    /\ stopPc = "wait"
    /\ WgCount = 0
    /\ muFree
    /\ stopPc' = "returned"
    /\ closed' = CloseAll(closed, {a \in Allocs : \E id \in StreamIds : allocations[id] = a})
    /\ allocations' = [id \in StreamIds |-> Nil]
    /\ UNCHANGED <<now, callVars, sideVars, started, lis, ctxDone, acceptPc, collPc,
                   gcVars, nAllocs, alloc, handlerVars, peerClosed, acks, out, nsent, nread,
                   bridgeVars>>

\* What randomUint64() returns.  Stream ids are compared for equality only, so
\* a draw is either an id drawn before or the least id not drawn yet.
FreshStreamIds == 1..(nAllocs + 1)

\* streamID is what randomUint64() returns; the token is 32 fresh random bytes:
\* the a-th allocation holds token a.
CreateStream(serverPeerID, clientPeerID, ttl, streamID) ==
    /\ nAllocs < MaxAllocs
    /\ nAllocs + nConns < MaxObjects
    /\ muFree
    /\ LET a == nAllocs + 1
           token == a
       IN    /\ alloc' = [alloc EXCEPT ![a] =
                    [streamID |-> streamID, token |-> token,
                     serverPeerID |-> serverPeerID, clientPeerID |-> clientPeerID,
                     sideS |-> Nil, sideC |-> Nil, created |-> now, ttl |-> ttl]]
             /\ allocations' = [allocations EXCEPT ![streamID] = a]
             /\ nAllocs' = a
             /\ cret' = [cret EXCEPT ![a] =
                    [streamID |-> streamID, token |-> token, addr |-> listenAddr,
                     err |-> "nil"]]
    /\ UNCHANGED <<now, startRet, nCreateFail, nAcceptErr, sideVars, mgrVars, gcVars,
                   handlerVars, connVars, bridgeVars>>

(***************************************************************************)
(* acceptLoop.                                                             *)
(***************************************************************************)
Accept ==
    /\ acceptPc = "run"
    /\ lis = "open"
    /\ nConns < MaxConns
    /\ nAllocs + nConns < MaxObjects
    /\ nConns' = nConns + 1
    /\ hpc' = [hpc EXCEPT ![nConns + 1] = "read"]
    /\ UNCHANGED <<now, callVars, sideVars, mgrVars, gcVars, tableVars, hreq, ha, herr,
                   connVars, bridgeVars>>

\* Accept fails on the closed listener and m.ctx is done.
AcceptExit ==
    /\ acceptPc = "run"
    /\ lis = "closed"
    /\ ctxDone
    /\ acceptPc' = "exit"
    /\ UNCHANGED <<now, callVars, sideVars, started, lis, ctxDone, collPc, stopPc, gcVars,
                   tableVars, handlerVars, connVars, bridgeVars>>

(***************************************************************************)
(* What a peer may send as the first bytes of a connection: the handshake  *)
(* frames of sendHandshake under any token, stream id and sender, and      *)
(* malformed ones.                                                         *)
(***************************************************************************)
HandshakeFrame(token, streamId, sender) ==
    WriteRelayFrame(RelayTypeHandshakeRequest, token, MarshalRequest(streamId, sender)).bytes

Senders == PeerIds \cup {InvalidPeerBytes}

PeerInputs ==
    {HandshakeFrame(k, id, s) : k \in Tokens, id \in StreamIds, s \in Senders}
    \cup {SubSeq(HandshakeFrame(1, 1, 1), 1, 3),
          [HandshakeFrame(1, 1, 1) EXCEPT ![1] = 0],
          [HandshakeFrame(1, 1, 1) EXCEPT ![7] = 2],
          WriteRelayFrame(RelayTypeHandshakeAck, 1, MarshalRequest(1, 1)).bytes,
          WriteRelayFrame(RelayTypeHandshakeRequest, 1, <<9>>).bytes}

(***************************************************************************)
(* handleConn, inside the goroutine acceptLoop starts for the connection.  *)
(***************************************************************************)
\* handleConn returns err (line 171): its locals are gone, the goroutine is
\* about to close the connection.
HandlerFails(c, err) ==
    /\ hpc' = [hpc EXCEPT ![c] = "failed"]
    /\ herr' = [herr EXCEPT ![c] = err]
    /\ hreq' = [hreq EXCEPT ![c] = NoReq]
    /\ ha' = [ha EXCEPT ![c] = Nil]

HandlerClose_Leaks(c) ==
    /\ hpc[c] = "failed"
    /\ hpc' = [hpc EXCEPT ![c] = "closed"]
    /\ herr' = [herr EXCEPT ![c] = "nil"]
    /\ acks' = [acks EXCEPT ![c] = <<>>]
    /\ peerClosed' = [peerClosed EXCEPT ![c] = FALSE]
    /\ UNCHANGED <<now, callVars, sideVars, mgrVars, gcVars, tableVars, nConns, hreq, ha,
                   closed, out, nsent, nread, bridgeVars>>

\* Lines 172-174 and the deferred m.wg.Done(): log, close, end of the goroutine.
HandlerClose(c) ==
    /\ hpc[c] = "failed"
    /\ hpc' = [hpc EXCEPT ![c] = "closed"]
    /\ herr' = [herr EXCEPT ![c] = "nil"]
    /\ closed' = [closed EXCEPT ![c] = TRUE]
    /\ acks' = [acks EXCEPT ![c] = <<>>]
    /\ peerClosed' = [peerClosed EXCEPT ![c] = FALSE]
    /\ UNCHANGED <<now, callVars, sideVars, mgrVars, gcVars, tableVars, nConns, hreq, ha,
                   out, nsent, nread, bridgeVars>>

IsServerPeer_Never(a, senderPeerId) == FALSE

\* Line 216-219.
IsServerPeer(a, senderPeerId) == alloc[a].serverPeerID = senderPeerId

IsClientPeer_Any(a, senderPeerId) == TRUE

IsClientPeer(a, senderPeerId) == alloc[a].clientPeerID = senderPeerId

NoSuchStreamAck_Ok == AckFrame(TRUE, ErrTextNone, ZeroToken)

\* Lines 198-200: the failure ack for an unknown stream, under a zero token.
NoSuchStreamAck == AckFrame(FALSE, ErrTextNoSuchStream, ZeroToken)

HmacMismatchAck_ZeroToken(a) == AckFrame(FALSE, ErrTextHmacMismatch, ZeroToken)

\* Lines 206-208: the failure ack for a bad tag, under the allocation's token.
HmacMismatchAck(a) == AckFrame(FALSE, ErrTextHmacMismatch, alloc[a].token)

OkAck_ZeroToken(a) == AckFrame(TRUE, ErrTextNone, ZeroToken)

\* Lines 225-227: the OK ack, under the allocation's token.
OkAck(a) == AckFrame(TRUE, ErrTextNone, alloc[a].token)

\* Lines 181-229 for a connection on which the bytes in arrive: read one frame,
\* require a HandshakeRequest, decode it, look the allocation up under m.mu,
\* verify the HMAC and the sender, write the ack.  wfail: the peer has gone and
\* the write of the OK ack fails.
Handshake(c, in, wfail) ==
    /\ hpc[c] = "read"
    /\ muFree
    /\ LET r == ReadRelayFrameRaw(in)
           req == UnmarshalRequest(r.data)
           a == LookupAlloc(req.StreamId)
           sender == IDFromBytes(req.SenderPeerId)
       IN  IF r.err # "nil"
           THEN /\ HandlerFails(c, r.err)
                /\ UNCHANGED <<acks, peerClosed>>
           ELSE IF r.hdr.Type # RelayTypeHandshakeRequest
           THEN /\ HandlerFails(c, "unexpected type")
                /\ UNCHANGED <<acks, peerClosed>>
           ELSE IF req.err # "nil"
           THEN /\ HandlerFails(c, "bad payload")
                /\ UNCHANGED <<acks, peerClosed>>
           ELSE IF a = Nil
           THEN /\ acks' = [acks EXCEPT ![c] = Append(@, NoSuchStreamAck)]
                /\ HandlerFails(c, "allocation not found")
                /\ UNCHANGED peerClosed
           ELSE IF VerifyRelayHMAC(r.hdr, alloc[a].token, r.data, r.hmacSum) # "nil"
           THEN /\ acks' = [acks EXCEPT ![c] = Append(@, HmacMismatchAck(a))]
                /\ HandlerFails(c, "hmac mismatch")
                /\ UNCHANGED peerClosed
           ELSE IF sender.err # "nil"
           THEN /\ HandlerFails(c, sender.err)
                /\ UNCHANGED <<acks, peerClosed>>
           ELSE IF ~IsServerPeer(a, sender.id) /\ ~IsClientPeer(a, sender.id)
           THEN /\ HandlerFails(c, "bad peer")
                /\ UNCHANGED <<acks, peerClosed>>
           ELSE IF wfail
           THEN /\ peerClosed' = [peerClosed EXCEPT ![c] = TRUE]
                /\ HandlerFails(c, "write ack")
                /\ UNCHANGED acks
           ELSE /\ acks' = [acks EXCEPT ![c] = Append(@, OkAck(a))]
                /\ hreq' = [hreq EXCEPT ![c] =
                       [hdr |-> r.hdr, data |-> r.data, sum |-> r.hmacSum]]
                /\ ha' = [ha EXCEPT ![c] = a]
                /\ hpc' = [hpc EXCEPT ![c] = "install"]
                /\ UNCHANGED <<herr, peerClosed>>
    /\ UNCHANGED <<now, callVars, sideVars, mgrVars, gcVars, tableVars, nConns, closed,
                   out, nsent, nread, bridgeVars>>

HandleHandshake(c) ==
    \E in \in PeerInputs, wfail \in BOOLEAN : Handshake(c, in, wfail)

\* The handshake frames of the peers that were handed an allocation
\* (sendHandshake with the allocation's stream id and token).
HolderInputs ==
    {HandshakeFrame(alloc[a].token, alloc[a].streamID, s) : a \in 1..nAllocs, s \in PeerIds}

HandleHolderHandshake(c) ==
    \E in \in HolderInputs : Handshake(c, in, FALSE)

SlotFree_Always(a, isServerPeer) == TRUE

\* Lines 235 and 240: the slot the connection goes to is still empty.
SlotFree(a, isServerPeer) ==
    IF isServerPeer THEN alloc[a].sideS = Nil ELSE alloc[a].sideC = Nil

\* Lines 238 and 243.
InstallSide(a, isServerPeer, c) ==
    IF isServerPeer THEN [alloc[a] EXCEPT !.sideS = c] ELSE [alloc[a] EXCEPT !.sideC = c]

BothSides_Any(na) == TRUE

\* Line 246, under a.mu: both sides of the allocation are present.
BothSides(na) == na.sideS # Nil /\ na.sideC # Nil

\* Lines 231-251, under a.mu: install the connection, launch the bridge when
\* both sides are present.
HandleInstall(c) ==
    /\ hpc[c] = "install"
    /\ LET a == ha[c]
           sender == IDFromBytes(UnmarshalRequest(hreq[c].data).SenderPeerId).id
           isServerPeer == IsServerPeer(a, sender)
       IN  IF ~SlotFree(a, isServerPeer)
           THEN /\ HandlerFails(c, IF isServerPeer THEN "server already bridged"
                                   ELSE "client already bridged")
                /\ UNCHANGED <<alloc, bridgeVars>>
           ELSE LET na == InstallSide(a, isServerPeer, c)
                IN  /\ alloc' = [alloc EXCEPT ![a] = na]
                    /\ hpc' = [hpc EXCEPT ![c] = "done"]
                    /\ UNCHANGED <<hreq, ha, herr>>
                    /\ IF BothSides(na)
                       THEN /\ bpc' = [bpc EXCEPT ![a] = "wait"]
                            /\ flow' = [flow EXCEPT ![a] = [A |-> "run", B |-> "run"]]
                            /\ nBridge' = [nBridge EXCEPT ![a] = @ + 1]
                       ELSE UNCHANGED bridgeVars
    /\ UNCHANGED <<now, callVars, sideVars, mgrVars, gcVars, nAllocs, allocations, nConns,
                   connVars>>

(***************************************************************************)
(* startBridge.  Flow A is io.Copy(a.sideS, a.sideC), flow B is            *)
(* io.Copy(a.sideC, a.sideS).                                              *)
(***************************************************************************)
Flows == {"A", "B"}

FlowSrc(a, f) == IF f = "A" THEN alloc[a].sideC ELSE alloc[a].sideS

FlowDst_Source(a, f) == IF f = "A" THEN alloc[a].sideC ELSE alloc[a].sideS

FlowDst(a, f) == IF f = "A" THEN alloc[a].sideS ELSE alloc[a].sideC

\* One Read of up to k bytes and the Write of what was read.
CopyChunk(src, dst, k) ==
    /\ nread' = [nread EXCEPT ![src] = @ + k]
    /\ out' = [out EXCEPT ![dst] = @ \o SubSeq(Payload(src), nread[src] + 1, nread[src] + k)]

\* io.Copy moves the bytes that have arrived on the source to the destination.
FlowCopy(a, f) ==
    /\ flow[a][f] = "run"
    /\ LET src == FlowSrc(a, f)
           dst == FlowDst(a, f)
       IN  /\ ~closed[src]
           /\ ~closed[dst]
           /\ ~peerClosed[dst]
           /\ nread[src] < nsent[src]
           /\ \E k \in 1..(nsent[src] - nread[src]) : CopyChunk(src, dst, k)
    /\ UNCHANGED <<now, callVars, sideVars, mgrVars, gcVars, tableVars, handlerVars,
                   closed, peerClosed, acks, nsent, bridgeVars>>

FlowClosed_None(cl, a) == cl

\* Lines 260 and 265, the deferred a.Close(): the connections a flow closes on
\* its way out.
FlowClosed(cl, a) == CloseAll(cl, {a})

\* io.Copy returns: Read fails on the closed source or ends with EOF once the
\* peer has closed and everything was read, or Write fails on the destination.
\* The deferred a.Close() closes both sides, then wg.Done().
FlowExit(a, f) ==
    /\ flow[a][f] = "run"
    /\ LET src == FlowSrc(a, f)
           dst == FlowDst(a, f)
       IN  \/ closed[src]
           \/ peerClosed[src] /\ nread[src] = nsent[src]
           \/ nread[src] < nsent[src] /\ (closed[dst] \/ peerClosed[dst])
    /\ closed' = FlowClosed(closed, a)
    /\ flow' = [flow EXCEPT ![a][f] = "done"]
    /\ UNCHANGED <<now, callVars, sideVars, mgrVars, gcVars, tableVars, handlerVars,
                   peerClosed, acks, out, nsent, nread, bpc, nBridge>>

\* Lines 268-273: both flows are done; delete(m.allocations, id) under m.mu.
BridgeRemove(a) ==
    /\ bpc[a] = "wait"
    /\ flow[a] = [A |-> "done", B |-> "done"]
    /\ muFree
    /\ allocations' = [allocations EXCEPT ![alloc[a].streamID] = Nil]
    /\ bpc' = [bpc EXCEPT ![a] = "done"]
    /\ UNCHANGED <<now, callVars, sideVars, mgrVars, gcVars, nAllocs, alloc, handlerVars,
                   connVars, flow, nBridge>>

(***************************************************************************)
(* The collector goroutine and gc.                                         *)
(***************************************************************************)
Expired_Never(a, t) == FALSE

\* Line 284.
Expired(a, t) == t - alloc[a].created > alloc[a].ttl

\* Line 286, read without a.mu.
NotFullyBridged(a) == alloc[a].sideS = Nil \/ alloc[a].sideC = Nil

\* Line 287, a.Close() under a.mu: the connections gc closes.
GcClosed(cl, a) == CloseAll(cl, {a})

\* The ticker fires: gc takes m.mu and starts its range loop.
GcBegin ==
    /\ collPc = "run"
    /\ gcPc = "idle"
    /\ gcPc' = "sweep"
    /\ gcNow' = now
    /\ gcTodo' = {id \in StreamIds : allocations[id] # Nil}
    /\ gcTarget' = Nil
    /\ UNCHANGED <<now, callVars, sideVars, mgrVars, tableVars, handlerVars, connVars,
                   bridgeVars>>

\* One iteration of the range loop up to the call of a.Close().
GcVisit(id) ==
    /\ gcPc = "sweep"
    /\ id \in gcTodo
    /\ IF Expired(allocations[id], gcNow) /\ NotFullyBridged(allocations[id])
       THEN /\ gcPc' = "close"
            /\ gcTarget' = id
            /\ UNCHANGED gcTodo
       ELSE /\ gcTodo' = gcTodo \ {id}
            /\ UNCHANGED <<gcPc, gcTarget>>
    /\ UNCHANGED <<now, callVars, sideVars, mgrVars, gcNow, tableVars, handlerVars,
                   connVars, bridgeVars>>

\* Lines 287-288: a.Close() takes a.mu and closes the sides present then; delete.
GcClose ==
    /\ gcPc = "close"
    /\ closed' = GcClosed(closed, allocations[gcTarget])
    /\ allocations' = [allocations EXCEPT ![gcTarget] = Nil]
    /\ gcTodo' = gcTodo \ {gcTarget}
    /\ gcTarget' = Nil
    /\ gcPc' = "sweep"
    /\ UNCHANGED <<now, callVars, sideVars, mgrVars, gcNow, nAllocs, alloc, handlerVars,
                   peerClosed, acks, out, nsent, nread, bridgeVars>>

\* The range loop is over: the deferred m.mu.Unlock().
GcEnd ==
    /\ gcPc = "sweep"
    /\ gcTodo = {}
    /\ gcPc' = "idle"
    /\ gcNow' = 0
    /\ UNCHANGED <<now, callVars, sideVars, mgrVars, gcTodo, gcTarget, tableVars,
                   handlerVars, connVars, bridgeVars>>

\* Lines 104-105: the select takes m.ctx.Done().
CollectorExit ==
    /\ collPc = "run"
    /\ gcPc = "idle"
    /\ ctxDone
    /\ collPc' = "exit"
    /\ UNCHANGED <<now, callVars, sideVars, started, lis, ctxDone, acceptPc, stopPc,
                   gcVars, tableVars, handlerVars, connVars, bridgeVars>>

(***************************************************************************)
(* The peers of the accepted connections.                                  *)
(***************************************************************************)
\* The peer sends one more payload byte behind its handshake frame.
PeerSend(c) ==
    /\ hpc[c] = "done"
    /\ ~peerClosed[c]
    /\ ~closed[c]
    /\ nsent[c] < MaxBytes
    /\ nsent' = [nsent EXCEPT ![c] = @ + 1]
    /\ UNCHANGED <<now, callVars, sideVars, mgrVars, gcVars, tableVars, handlerVars,
                   closed, peerClosed, acks, out, nread, bridgeVars>>

\* The peer closes its end.
PeerClose(c) ==
    /\ hpc[c] = "done"
    /\ ~peerClosed[c]
    /\ peerClosed' = [peerClosed EXCEPT ![c] = TRUE]
    /\ UNCHANGED <<now, callVars, sideVars, mgrVars, gcVars, tableVars, handlerVars,
                   closed, acks, out, nsent, nread, bridgeVars>>

(***************************************************************************)
(* Further calls and events in the life of a manager: Start on a started   *)
(* manager, Stop after Stop, cancellation of the context handed to Start,  *)
(* an Accept that fails, a CreateStream without randomness.                *)
(***************************************************************************)
StartAgain_Restarts ==
    /\ started
    /\ startRet' = "already started"
    /\ lis' = "open"
    /\ acceptPc' = "run"
    /\ collPc' = "run"
    /\ UNCHANGED <<now, cret, nCreateFail, nAcceptErr, sideVars, started, ctxDone, stopPc,
                   gcVars, tableVars, handlerVars, connVars, bridgeVars>>

\* Lines 80-82: m.cancel is set.
StartAgain ==
    /\ started
    /\ startRet' = "already started"
    /\ UNCHANGED <<now, cret, nCreateFail, nAcceptErr, sideVars, mgrVars, gcVars,
                   tableVars, handlerVars, connVars, bridgeVars>>

\* A later call of Stop, up to m.wg.Wait(): cancel and lis.Close once more.
\* "wait again": this call's m.lis.Close() found the listener closed already.
StopAgainBegin ==
    /\ stopPc \in {"returned", "returned again"}
    /\ stopPc' = IF lis = "closed" THEN "wait again" ELSE "wait"
    /\ ctxDone' = (ctxDone \/ started)
    /\ lis' = IF lis = "open" THEN "closed" ELSE lis
    /\ UNCHANGED <<now, callVars, sideVars, started, acceptPc, collPc, gcVars, tableVars,
                   handlerVars, connVars, bridgeVars>>

\* The later call from the return of m.wg.Wait().
StopAgainFinish ==
    /\ stopPc = "wait again"
    /\ WgCount = 0
    /\ muFree
    /\ stopPc' = "returned again"
    /\ closed' = CloseAll(closed, {a \in Allocs : \E id \in StreamIds : allocations[id] = a})
    /\ allocations' = [id \in StreamIds |-> Nil]
    /\ UNCHANGED <<now, callVars, sideVars, started, lis, ctxDone, acceptPc, collPc,
                   gcVars, nAllocs, alloc, handlerVars, peerClosed, acks, out, nsent, nread,
                   bridgeVars>>

\* Line 83: m.ctx is a child of the context handed to Start; the caller
\* cancels that context.
CancelToken ==
    /\ started
    /\ ~ctxDone
    /\ ctxDone' = TRUE
    /\ UNCHANGED <<now, callVars, sideVars, started, lis, acceptPc, collPc, stopPc, gcVars,
                   tableVars, handlerVars, connVars, bridgeVars>>

\* Lines 158-166: Accept returns an error while the listener is open; the
\* loop ends when m.ctx is done and goes on otherwise.
AcceptError ==
    /\ acceptPc = "run"
    /\ lis = "open"
    /\ nAcceptErr < MaxAcceptErrs
    /\ nAcceptErr' = nAcceptErr + 1
    /\ acceptPc' = IF ctxDone THEN "exit" ELSE "run"
    /\ UNCHANGED <<now, startRet, cret, nCreateFail, sideVars, started, lis, ctxDone,
                   collPc, stopPc, gcVars, tableVars, handlerVars, connVars, bridgeVars>>

CreateStreamFails_Inserts ==
    /\ nAllocs < MaxAllocs
    /\ nCreateFail < MaxCreateFails
    /\ nCreateFail' = nCreateFail + 1
    /\ nAllocs' = nAllocs + 1
    /\ alloc' = [alloc EXCEPT ![nAllocs + 1] = [NoAlloc EXCEPT !.streamID = nAllocs + 1]]
    /\ allocations' = [allocations EXCEPT ![nAllocs + 1] = nAllocs + 1]
    /\ UNCHANGED <<now, startRet, cret, nAcceptErr, sideVars, mgrVars, gcVars, handlerVars,
                   connVars, bridgeVars>>

\* Lines 135-137: reading the token from crypto/rand fails; the error is
\* returned before m.mu is taken.
CreateStreamFails ==
    /\ nCreateFail < MaxCreateFails
    /\ nCreateFail' = nCreateFail + 1
    /\ UNCHANGED <<now, startRet, cret, nAcceptErr, sideVars, mgrVars, gcVars, tableVars,
                   handlerVars, connVars, bridgeVars>>

\* The steps of the manager's own goroutines and of its callers.
ManagerStep ==
    \/ Tick
    \/ Start
    \/ StopBegin
    \/ StopFinish
    \/ Accept
    \/ AcceptExit
    \/ \E c \in Conns : HandlerClose(c)
    \/ \E c \in Conns : HandleInstall(c)
    \/ \E a \in Allocs, f \in Flows : FlowExit(a, f)
    \/ \E a \in Allocs : BridgeRemove(a)
    \/ GcBegin
    \/ \E id \in StreamIds : GcVisit(id)
    \/ GcClose
    \/ GcEnd
    \/ CollectorExit
    \/ \E c \in Conns : PeerClose(c)

\* The manager under arbitrary peers: any allocation, any first bytes on a
\* connection; no payload is sent behind the handshake.
Next ==
    \/ ManagerStep
    \/ \E s \in ServerPeers, p \in ClientPeers, ttl \in TTLs, id \in FreshStreamIds :
         CreateStream(s, p, ttl, id)
    \/ \E c \in Conns : HandleHandshake(c)

Spec == Init /\ [][Next]_vars

\* The manager relaying payload: allocations for two distinct peers under
\* stream ids that do not collide, handshakes of peers that hold an allocation,
\* payload bytes behind the handshake.
NextRelay ==
    \/ ManagerStep
    \/ \E ttl \in TTLs : CreateStream(1, 2, ttl, nAllocs + 1)
    \/ \E c \in Conns : HandleHolderHandshake(c)
    \/ \E c \in Conns : PeerSend(c)
    \/ \E a \in Allocs, f \in Flows : FlowCopy(a, f)

SpecRelay == Init /\ [][NextRelay]_vars

(***************************************************************************)
(* The frame codec on its own: one frame is written with WriteRelayFrame,  *)
(* read back with ReadRelayFrameRaw from a connection that carries the     *)
(* frame and whatever follows it, and verified with VerifyRelayHMAC.       *)
(***************************************************************************)
CodecTypes == {0, RelayTypeHandshakeRequest, RelayTypeHandshakeAck, 255}

CodecTokens == Tokens \cup {ZeroToken}

CodecBytes == {0, 255}

ShortData == UNION {[1..n -> CodecBytes] : n \in 0..MaxShortLen}

\* Data around the byte boundary of the length field and around the limit of
\* WriteRelayFrame.
LongLens == {255, 256, 257, MaxDataLen, MaxDataLen + 1}

LongData(n) == [i \in 1..n |-> i % 256]

CodecInputs ==
    [typ : CodecTypes, token : CodecTokens, data : ShortData]
    \cup {[typ |-> RelayTypeHandshakeRequest, token |-> 1, data |-> LongData(n)] :
             n \in LongLens}

\* What follows the frame on the connection.
Trailers == {<<>>, <<70>>, <<1, 2, 3>>}

InitCodec ==
    /\ InitManager
    /\ InitCalls
    /\ cpc = "idle"
    /\ cin \in CodecInputs
    /\ cwire = NoWire
    /\ crd = NoRead
    /\ cver = NoVerify
    /\ InitReadIdle
    /\ InitDialIdle
    /\ InitLockTasks

CodecWrite ==
    /\ cpc = "idle"
    /\ cwire' = WriteRelayFrame(cin.typ, cin.token, cin.data)
    /\ cpc' = IF cwire'.err = "nil" THEN "written" ELSE "failed"
    /\ UNCHANGED <<cin, crd, cver, readVars, dialVars, relayVars, lockVars>>

CodecRead(trailer) ==
    /\ cpc = "written"
    /\ crd' = ReadRelayFrameRaw(cwire.bytes \o trailer)
    /\ cpc' = "read"
    /\ UNCHANGED <<cin, cwire, cver, readVars, dialVars, relayVars, lockVars>>

\* What a verifier may hold that differs from what was written.
Tampers == {"none", "length", "version", "type", "data byte", "data appended"}

TamperedHeader(hdr, what) ==
    IF what = "length" THEN [hdr EXCEPT !.Length = (@ + 1) % 65536]
    ELSE IF what = "version" THEN [hdr EXCEPT !.Version = (@ + 1) % 256]
    ELSE IF what = "type" THEN [hdr EXCEPT !.Type = (@ + 1) % 256]
    ELSE hdr

TamperedData(data, what) ==
    IF what = "data appended" \/ (what = "data byte" /\ Len(data) = 0) THEN Append(data, 0)
    ELSE IF what = "data byte" THEN [data EXCEPT ![1] = (@ + 1) % 256]
    ELSE data

CodecVerify(token, what) ==
    /\ cpc = "read"
    /\ cver' = [token |-> token, what |-> what,
                err |-> VerifyRelayHMAC(TamperedHeader(crd.hdr, what), token,
                                        TamperedData(crd.data, what), crd.hmacSum)]
    /\ cpc' = "verified"
    /\ UNCHANGED <<cin, cwire, crd, readVars, dialVars, relayVars, lockVars>>

NextCodec ==
    \/ CodecWrite
    \/ \E trailer \in Trailers : CodecRead(trailer)
    \/ \E token \in CodecTokens, what \in Tampers : CodecVerify(token, what)

SpecCodec == InitCodec /\ [][NextCodec]_vars

\* The manager through its life: repeated Start and Stop, cancellation, failing
\* Accept and CreateStream, beside allocations with distinct stream ids and
\* the handshakes of the peers that hold them.
NextLifecycle ==
    \/ ManagerStep
    \/ \E ttl \in TTLs : CreateStream(1, 2, ttl, nAllocs + 1)
    \/ \E c \in Conns : HandleHolderHandshake(c)
    \/ StartAgain
    \/ StopAgainBegin
    \/ StopAgainFinish
    \/ CancelToken
    \/ AcceptError
    \/ CreateStreamFails

SpecLifecycle == Init /\ [][NextLifecycle]_vars

(***************************************************************************)
(* The manager being stopped.  The peer of a connection may send a         *)
(* handshake frame that breaks off, so that the read of its handler ends   *)
(* by an error or at the read deadline.  Start and Stop use m.cancel and   *)
(* m.lis without a lock: their caller does not run Start while a call of   *)
(* Stop is under way.                                                      *)
(***************************************************************************)
\* Lines 181-183: ReadRelayFrameRaw returns an error, the frame broke off.
HandleBrokenHandshake(c) == Handshake(c, SubSeq(HandshakeFrame(1, 1, 1), 1, 3), FALSE)

StopUnderWay == stopPc \in {"wait", "wait again"}

NextStop ==
    \/ ManagerStep /\ (StopUnderWay => started' = started)
    \/ \E ttl \in TTLs : CreateStream(1, 2, ttl, nAllocs + 1)
    \/ \E c \in Conns : HandleHolderHandshake(c)
    \/ \E c \in Conns : HandleBrokenHandshake(c)
    \/ StopAgainBegin
    \/ StopAgainFinish
    \/ CancelToken

SpecStop == Init /\ [][NextStop]_vars

\* What a handler does next: the read of line 181 ends, by data or by an
\* error; the install; the close after an error.
HandlerStep(c) ==
    \/ HandleHolderHandshake(c)
    \/ HandleBrokenHandshake(c)
    \/ HandleInstall(c)
    \/ HandlerClose(c)

\* A goroutine that can run does run: the handlers, the acceptor whose Accept
\* failed, the sweep of gc, Stop behind m.wg.Wait().  The select of the
\* collector takes one of its ready cases at random, so that it does not pass
\* over m.ctx.Done() for ever.
FairStop ==
    /\ SpecStop
    /\ \A c \in Conns : WF_vars(HandlerStep(c))
    /\ WF_vars(AcceptExit)
    /\ SF_vars(CollectorExit)
    /\ WF_vars(GcClose)
    /\ WF_vars(GcEnd)
    /\ \A id \in StreamIds : WF_vars(GcVisit(id))
    /\ WF_vars(StopFinish)
    /\ WF_vars(StopAgainFinish)

(***************************************************************************)
(* One accepted connection under the clock: handleConn reads the handshake *)
(* frame with ReadRelayFrameRaw(c, time.Second*10) while the bytes of the  *)
(* peer's frame arrive in pieces; afterwards the connection is acked and   *)
(* installed and a copy flow reads it, or it is closed.  Times are whole   *)
(* seconds since the connection was accepted.                              *)
(***************************************************************************)
\* the clock of a followed connection stops here
MaxClock == 12
\* the goroutine of the handler starts this long after Accept at the latest
MaxCallDelay == 1

\* Line 181: the timeout handleConn hands to ReadRelayFrameRaw, in seconds.
handshakeTimeout == 10

\* The frame the peer sends.
DeadlineFrame == HandshakeFrame(1, 1, 1)

ReadDeadline_FromFirstByte(t, first) == IF first = NoTime THEN NoTime ELSE first + 10

\* Line 86: r.SetReadDeadline(time.Now().Add(timeout)), called at time t.
ReadDeadline(t, first) == t + handshakeTimeout

\* Lines 87-89, deferred: r.SetReadDeadline(time.Time{}).
DeadlineAfterRead(d) == NoTime

\* A Read is pending on the connection and its deadline has come.
DeadlineDue ==
    dpc \in {"reading", "copying"} /\ deadline # NoTime /\ dclock >= deadline

InitDeadline ==
    /\ InitManager
    /\ InitCalls
    /\ InitCodecIdle
    /\ dpc = "accepted"
    /\ dclock = 0
    /\ dcall = NoTime
    /\ deadline = NoTime
    /\ dfirst = NoTime
    /\ dgot = 0
    /\ dret = NoTime
    /\ derr = "none"
    /\ dacks = 0
    /\ InitDialIdle
    /\ InitLockTasks

\* Time passes, unless a step of the relay is due: the handler's goroutine
\* has to start, a Read that has all its bytes or is past its deadline returns.
ClockTick ==
    /\ dclock < MaxClock
    /\ dpc = "accepted" => dclock < MaxCallDelay
    /\ ~(dpc = "reading" /\ dgot = Len(DeadlineFrame))
    /\ ~DeadlineDue
    /\ dclock' = dclock + 1
    /\ UNCHANGED <<dpc, dcall, deadline, dfirst, dgot, dret, derr, dacks, codecVars,
                   dialVars, relayVars, lockVars>>

\* k more bytes of the peer's frame arrive.
BytesArrive(k) ==
    /\ dpc \in {"accepted", "reading"}
    /\ dgot + k <= Len(DeadlineFrame)
    /\ dgot' = dgot + k
    /\ dfirst' = IF dfirst = NoTime THEN dclock ELSE dfirst
    /\ UNCHANGED <<dpc, dclock, dcall, deadline, dret, derr, dacks, codecVars,
                   dialVars, relayVars, lockVars>>

\* handleConn, line 181, and ReadRelayFrameRaw, line 86.
ReadCall ==
    /\ dpc = "accepted"
    /\ dpc' = "reading"
    /\ dcall' = dclock
    /\ deadline' = ReadDeadline(dclock, dfirst)
    /\ UNCHANGED <<dclock, dfirst, dgot, dret, derr, dacks, codecVars,
                   dialVars, relayVars, lockVars>>

\* Lines 91-132: the reads of io.ReadFull have taken every byte of the frame.
ReadReturnsFrame ==
    /\ dpc = "reading"
    /\ dgot = Len(DeadlineFrame)
    /\ derr' = ReadRelayFrameRaw(DeadlineFrame).err
    /\ dret' = dclock
    /\ deadline' = DeadlineAfterRead(deadline)
    /\ dpc' = "handling"
    /\ UNCHANGED <<dclock, dcall, dfirst, dgot, dacks, codecVars,
                   dialVars, relayVars, lockVars>>

\* The deadline of the connection comes while a Read is pending: the Read
\* fails.  In ReadRelayFrameRaw, io.ReadFull returns the error, the function
\* returns it (lines 91-131) and handleConn does (line 183); in a copy flow,
\* io.Copy ends and the bridge is torn down.
ReadTimeout ==
    /\ DeadlineDue
    /\ IF dpc = "reading"
       THEN /\ derr' = ReadRelayFrameRaw(SubSeq(DeadlineFrame, 1, dgot)).err
            /\ derr' = "read"
            /\ dret' = dclock
            /\ deadline' = DeadlineAfterRead(deadline)
            /\ dpc' = "failed"
       ELSE /\ dpc' = "cut"
            /\ UNCHANGED <<derr, dret, deadline>>
    /\ UNCHANGED <<dclock, dcall, dfirst, dgot, dacks, codecVars,
                   dialVars, relayVars, lockVars>>

\* Lines 185-251 for the frame of a holder: the OK ack is written and the
\* connection installed; a copy flow of the bridge reads it from then on.
HandshakeAccepted ==
    /\ dpc = "handling"
    /\ dacks' = dacks + 1
    /\ dpc' = "copying"
    /\ UNCHANGED <<dclock, dcall, deadline, dfirst, dgot, dret, derr, codecVars,
                   dialVars, relayVars, lockVars>>

\* Lines 171-174: handleConn returned the error; the goroutine closes the
\* connection.
FailedReadClose ==
    /\ dpc = "failed"
    /\ dpc' = "closed"
    /\ UNCHANGED <<dclock, dcall, deadline, dfirst, dgot, dret, derr, dacks, codecVars,
                   dialVars, relayVars, lockVars>>

NextDeadline ==
    \/ ClockTick
    \/ \E k \in 1..Len(DeadlineFrame) : BytesArrive(k)
    \/ ReadCall
    \/ ReadReturnsFrame
    \/ ReadTimeout
    \/ HandshakeAccepted
    \/ FailedReadClose

SpecDeadline == InitDeadline /\ [][NextDeadline]_vars

\* Time passes, and a goroutine that can take its step takes it.
FairDeadline ==
    /\ SpecDeadline
    /\ WF_vars(ClockTick)
    /\ WF_vars(ReadCall)
    /\ WF_vars(ReadReturnsFrame)
    /\ WF_vars(ReadTimeout)
    /\ WF_vars(FailedReadClose)

(***************************************************************************)
(* The dialing peer (package relay_client): DialRelayStream dials the      *)
(* relay, sends its handshake, reads the ack with readHandshakeAck and     *)
(* hands the connection to the noise transport.                            *)
(***************************************************************************)
\* HandshakeAck.UnmarshalVT on the payload MarshalAck makes; the empty payload
\* is the zero message.
UnmarshalAck(data) ==
    IF Len(data) = 0 THEN [err |-> "nil", Ok |-> FALSE, Error |-> ErrTextNone]
    ELSE IF Len(data) = 2 /\ data[1] \in {0, 1}
    THEN [err |-> "nil", Ok |-> (data[1] = 1), Error |-> data[2]]
    ELSE [err |-> "decode ack", Ok |-> FALSE, Error |-> ErrTextNone]

ErrTexts == {ErrTextNone, ErrTextNoSuchStream, ErrTextHmacMismatch}

\* What may arrive on the peer's connection in answer to its handshake: the
\* acks the relay writes, under any token, and other bytes.
DialAnswers ==
    {AckFrame(ok, e, k) : ok \in BOOLEAN, e \in ErrTexts, k \in CodecTokens}
    \cup UNION {{WriteRelayFrame(RelayTypeHandshakeRequest, k, MarshalAck(TRUE, ErrTextNone)).bytes,
                 WriteRelayFrame(RelayTypeHandshakeAck, k, <<>>).bytes,
                 WriteRelayFrame(RelayTypeHandshakeAck, k, <<9>>).bytes} : k \in CodecTokens}
    \cup {<<>>,
          SubSeq(AckFrame(TRUE, ErrTextNone, 1), 1, 9),
          [AckFrame(TRUE, ErrTextNone, 1) EXCEPT ![1] = 0],
          [AckFrame(TRUE, ErrTextNone, 1) EXCEPT ![7] = 2]}

readHandshakeAck_NoTypeCheck(in, token) ==
    LET r == ReadRelayFrameRaw(in)
        ack == UnmarshalAck(r.data)
    IN  IF r.err # "nil" THEN "read relay-server ack"
        ELSE IF VerifyRelayHMAC(r.hdr, token, r.data, r.hmacSum) # "nil" THEN "ack hmac"
        ELSE IF ack.err # "nil" THEN "decode ack"
        ELSE IF ~ack.Ok THEN "relay-server nack"
        ELSE "nil"

\* readHandshakeAck on the bytes in that arrive on the connection.
readHandshakeAck(in, token) ==
    LET r == ReadRelayFrameRaw(in)
        ack == UnmarshalAck(r.data)
    IN  IF r.err # "nil" THEN "read relay-server ack"
        ELSE IF VerifyRelayHMAC(r.hdr, token, r.data, r.hmacSum) # "nil" THEN "ack hmac"
        ELSE IF r.hdr.Type # RelayTypeHandshakeAck THEN "unexpected relay-server type"
        ELSE IF ack.err # "nil" THEN "decode ack"
        ELSE IF ~ack.Ok THEN "relay-server nack"
        ELSE "nil"

InitDial ==
    /\ InitManager
    /\ InitCalls
    /\ InitCodecIdle
    /\ InitReadIdle
    /\ dialPc = "idle"
    /\ dialIn \in [token : CodecTokens, isServer : BOOLEAN, answer : DialAnswers]
    /\ dialConn = "none"
    /\ dialRet = NoDialRet
    /\ InitLockTasks

\* DialRelayStream returns (nil, err); the deferred function of lines 180-184
\* closes the connection, success being false.
DialFails(err) ==
    /\ dialPc' = "returned"
    /\ dialRet' = [err |-> err, sconn |-> FALSE]
    /\ dialConn' = "closed"

\* Lines 176-179.
DialConnect(ok) ==
    /\ dialPc = "idle"
    /\ IF ok
       THEN /\ dialPc' = "dialed"
            /\ dialConn' = "open"
            /\ UNCHANGED dialRet
       ELSE /\ dialPc' = "returned"
            /\ dialRet' = [err |-> "dial", sconn |-> FALSE]
            /\ UNCHANGED dialConn
    /\ UNCHANGED <<dialIn, codecVars, readVars, relayVars, lockVars>>

\* Lines 187-189.
DialSendHandshake(ok) ==
    /\ dialPc = "dialed"
    /\ IF ok
       THEN /\ dialPc' = "sent"
            /\ UNCHANGED <<dialConn, dialRet>>
       ELSE DialFails("send handshake")
    /\ UNCHANGED <<dialIn, codecVars, readVars, relayVars, lockVars>>

\* Lines 192-194.
DialReadAck ==
    /\ dialPc = "sent"
    /\ LET err == readHandshakeAck(dialIn.answer, dialIn.token)
       IN  IF err = "nil"
           THEN /\ dialPc' = "acked"
                /\ UNCHANGED <<dialConn, dialRet>>
           ELSE DialFails(err)
    /\ UNCHANGED <<dialIn, codecVars, readVars, relayVars, lockVars>>

\* Lines 196-208: noise.New, then SecureInbound or SecureOutbound on the
\* connection; success = err == nil.
DialSecure(newOk, secureOk) ==
    /\ dialPc = "acked"
    /\ IF ~newOk THEN DialFails("noise new")
       ELSE IF ~secureOk
       THEN DialFails(IF dialIn.isServer THEN "secure inbound" ELSE "secure outbound")
       ELSE /\ dialPc' = "returned"
            /\ dialRet' = [err |-> "nil", sconn |-> TRUE]
            /\ UNCHANGED dialConn
    /\ UNCHANGED <<dialIn, codecVars, readVars, relayVars, lockVars>>

NextDial ==
    \/ \E ok \in BOOLEAN : DialConnect(ok)
    \/ \E ok \in BOOLEAN : DialSendHandshake(ok)
    \/ DialReadAck
    \/ \E newOk \in BOOLEAN, secureOk \in BOOLEAN : DialSecure(newOk, secureOk)

SpecDial == InitDial /\ [][NextDial]_vars

(***************************************************************************)
(* The manager at the grain of its two kinds of lock, m.mu and the a.mu of *)
(* one allocation: every Lock, every Unlock and every stretch of code in   *)
(* between is a step of the task that runs it.  What the tasks compute     *)
(* (frames, tokens, times) is left to the choice of the step.              *)
(***************************************************************************)
\* The task stands in m.mu.Lock().
MuWaiting(t) == lpc[t] \in {"lookup wait", "lock wait"}

\* The task stands in a.mu.Lock().
AmuWaiting(t) == lpc[t] \in {"install wait", "close wait"}

\* Where a task goes on once it has the lock it stands at.
AfterLock(t) ==
    IF lpc[t] = "lookup wait" THEN "lookup"
    ELSE IF lpc[t] = "install wait" THEN "install"
    ELSE IF lpc[t] = "close wait" THEN "closing"
    ELSE IF t = "gc" THEN "sweep"
    ELSE IF t = "stop" THEN "range"
    ELSE IF t = "create" THEN "insert"
    ELSE "delete"

LTo(t, pc) == lpc' = [lpc EXCEPT ![t] = pc]

\* m.mu.Lock() returns: lines 123, 148, 193, 271, 281.
LockTable(t) ==
    /\ MuWaiting(t)
    /\ lmu = "free"
    /\ lmu' = t
    /\ LTo(t, AfterLock(t))
    /\ UNCHANGED <<lamu, ltab, lsides, lrole, codecVars, readVars, dialVars, relayVars>>

\* a.mu.Lock() returns: lines 45, 232.
LockAlloc(t) ==
    /\ AmuWaiting(t)
    /\ lamu = "free"
    /\ lamu' = t
    /\ LTo(t, AfterLock(t))
    /\ UNCHANGED <<lmu, ltab, lsides, lrole, codecVars, readVars, dialVars, relayVars>>

\* Lines 158-175: a connection is accepted and its handler started; Stop has
\* not closed the listener.
LAccept(h) ==
    /\ lpc[h] = "none"
    /\ lpc["stop"] = "idle"
    /\ LTo(h, "read")
    /\ UNCHANGED <<lmu, lamu, ltab, lsides, lrole, codecVars, readVars, dialVars, relayVars>>

\* Lines 181-193: the frame is read and decoded, or handleConn returns the
\* error.
LRead(h, ok) ==
    /\ lpc[h] = "read"
    /\ LTo(h, IF ok THEN "lookup wait" ELSE "ended")
    /\ UNCHANGED <<lmu, lamu, ltab, lsides, lrole, codecVars, readVars, dialVars, relayVars>>

\* Lines 194-196: the lookup, m.mu.Unlock().
LLookup(h) ==
    /\ lpc[h] = "lookup"
    /\ lmu' = "free"
    /\ LTo(h, IF ltab THEN "ack" ELSE "nak")
    /\ UNCHANGED <<lamu, ltab, lsides, lrole, codecVars, readVars, dialVars, relayVars>>

\* Lines 198-201: the failure ack is written, handleConn returns.
LNak(h) ==
    /\ lpc[h] = "nak"
    /\ LTo(h, "ended")
    /\ UNCHANGED <<lmu, lamu, ltab, lsides, lrole, codecVars, readVars, dialVars, relayVars>>

\* Lines 205-232: the tag and the sender are verified and the OK ack written
\* (role: the side of the sender), or handleConn returns an error.
LAck(h, role) ==
    /\ lpc[h] = "ack"
    /\ IF role = "none"
       THEN LTo(h, "ended") /\ UNCHANGED lrole
       ELSE LTo(h, "install wait") /\ lrole' = [lrole EXCEPT ![h] = role]
    /\ UNCHANGED <<lmu, lamu, ltab, lsides, codecVars, readVars, dialVars, relayVars>>

LInstall_LooksUpAgain(h) ==
    /\ lpc[h] = "install"
    /\ LTo(h, "lookup wait")
    /\ UNCHANGED <<lmu, lamu, ltab, lsides, lrole, codecVars, readVars, dialVars, relayVars>>

\* Lines 233-251, a.mu held: the slot is taken and handleConn returns the
\* error, or the connection is stored and, with both sides present,
\* startBridge launched with its two copy flows; the deferred a.mu.Unlock().
LInstall(h) ==
    /\ lpc[h] = "install"
    /\ lamu' = "free"
    /\ IF lrole[h] \in lsides
       THEN LTo(h, "ended") /\ UNCHANGED lsides
       ELSE /\ lsides' = lsides \cup {lrole[h]}
            /\ lpc' = IF lsides' = {"S", "C"}
                      THEN [t \in LockTasks |->
                               IF t = h THEN "ended"
                               ELSE IF t = "bridge" THEN "wait"
                               ELSE IF t \in FlowTasks THEN "copy"
                               ELSE lpc[t]]
                      ELSE [lpc EXCEPT ![h] = "ended"]
    /\ UNCHANGED <<lmu, ltab, lrole, codecVars, readVars, dialVars, relayVars>>

\* Lines 106-107 and 280-281: the ticker fires, gc goes for m.mu.
LGcTick ==
    /\ lpc["gc"] = "idle"
    /\ LTo("gc", "lock wait")
    /\ UNCHANGED <<lmu, lamu, ltab, lsides, lrole, codecVars, readVars, dialVars, relayVars>>

\* Lines 283-286, m.mu held, the slots read without a.mu: the allocation is
\* expired and lacks a side, or there is nothing to remove.
LGcSweep(expired) ==
    /\ lpc["gc"] = "sweep"
    /\ LTo("gc", IF ltab /\ expired /\ lsides # {"S", "C"} THEN "close wait" ELSE "unlock")
    /\ UNCHANGED <<lmu, lamu, ltab, lsides, lrole, codecVars, readVars, dialVars, relayVars>>

\* Lines 46-57, a.mu held: allocation.Close closes the sides present and
\* unlocks a.mu.  The caller is gc, Stop or a copy flow.
LClose(t) ==
    /\ lpc[t] = "closing"
    /\ lamu' = "free"
    /\ LTo(t, IF t = "gc" THEN "delete" ELSE IF t = "stop" THEN "clear" ELSE "done")
    /\ UNCHANGED <<lmu, ltab, lsides, lrole, codecVars, readVars, dialVars, relayVars>>

\* Line 288, m.mu held.
LGcDelete ==
    /\ lpc["gc"] = "delete"
    /\ ltab' = FALSE
    /\ LTo("gc", "unlock")
    /\ UNCHANGED <<lmu, lamu, lsides, lrole, codecVars, readVars, dialVars, relayVars>>

\* Line 282, deferred: m.mu.Unlock().
LGcUnlock ==
    /\ lpc["gc"] = "unlock"
    /\ lmu' = "free"
    /\ LTo("gc", "idle")
    /\ UNCHANGED <<lamu, ltab, lsides, lrole, codecVars, readVars, dialVars, relayVars>>

\* Lines 104-105: the collector leaves its loop, Stop having cancelled m.ctx.
LCollectorExit ==
    /\ lpc["gc"] = "idle"
    /\ lpc["stop"] # "idle"
    /\ LTo("gc", "exit")
    /\ UNCHANGED <<lmu, lamu, ltab, lsides, lrole, codecVars, readVars, dialVars, relayVars>>

\* Lines 116-122: cancel, close the listener, enter m.wg.Wait().
LStopCancel ==
    /\ lpc["stop"] = "idle"
    /\ LTo("stop", "wg wait")
    /\ UNCHANGED <<lmu, lamu, ltab, lsides, lrole, codecVars, readVars, dialVars, relayVars>>

\* Lines 122-123: m.wg.Wait() returns, the collector and every handler
\* having ended.
LStopWaited ==
    /\ lpc["stop"] = "wg wait"
    /\ lpc["gc"] = "exit"
    /\ \A h \in Handlers : lpc[h] \in {"none", "ended"}
    /\ LTo("stop", "lock wait")
    /\ UNCHANGED <<lmu, lamu, ltab, lsides, lrole, codecVars, readVars, dialVars, relayVars>>

\* Lines 125-126, m.mu held: the range loop calls a.Close() on what the
\* table holds.
LStopRange ==
    /\ lpc["stop"] = "range"
    /\ LTo("stop", IF ltab THEN "close wait" ELSE "clear")
    /\ UNCHANGED <<lmu, lamu, ltab, lsides, lrole, codecVars, readVars, dialVars, relayVars>>

\* Lines 128 and 124: the new map, the deferred m.mu.Unlock().
LStopClear ==
    /\ lpc["stop"] = "clear"
    /\ ltab' = FALSE
    /\ lmu' = "free"
    /\ LTo("stop", "returned")
    /\ UNCHANGED <<lamu, lsides, lrole, codecVars, readVars, dialVars, relayVars>>

\* Lines 133-148: CreateStream is called and goes for m.mu.
LCreateCall ==
    /\ lpc["create"] = "idle"
    /\ LTo("create", "lock wait")
    /\ UNCHANGED <<lmu, lamu, ltab, lsides, lrole, codecVars, readVars, dialVars, relayVars>>

\* Lines 149-152, m.mu held.
LCreateInsert ==
    /\ lpc["create"] = "insert"
    /\ ltab' = TRUE
    /\ lmu' = "free"
    /\ LTo("create", "done")
    /\ UNCHANGED <<lamu, lsides, lrole, codecVars, readVars, dialVars, relayVars>>

\* Lines 260-261 and 265-266: io.Copy returns (a side was closed, or a peer
\* went away); the deferred a.Close() goes for a.mu.
LCopyEnds(f) ==
    /\ lpc[f] = "copy"
    /\ LTo(f, "close wait")
    /\ UNCHANGED <<lmu, lamu, ltab, lsides, lrole, codecVars, readVars, dialVars, relayVars>>

\* Lines 268-271: both flows are done, startBridge goes for m.mu.
LBridgeWaited ==
    /\ lpc["bridge"] = "wait"
    /\ \A f \in FlowTasks : lpc[f] = "done"
    /\ LTo("bridge", "lock wait")
    /\ UNCHANGED <<lmu, lamu, ltab, lsides, lrole, codecVars, readVars, dialVars, relayVars>>

\* Lines 272-273, m.mu held.
LBridgeDelete ==
    /\ lpc["bridge"] = "delete"
    /\ ltab' = FALSE
    /\ lmu' = "free"
    /\ LTo("bridge", "done")
    /\ UNCHANGED <<lamu, lsides, lrole, codecVars, readVars, dialVars, relayVars>>

\* The steps of the collector while it holds m.mu, up to the Unlock.
GcLockedStep ==
    \/ \E expired \in BOOLEAN : LGcSweep(expired)
    \/ LClose("gc")
    \/ LGcDelete
    \/ LGcUnlock

\* The steps of the other tasks while they hold a lock, up to the Unlock.
TaskLockedStep ==
    \/ \E h \in Handlers : LLookup(h)
    \/ \E h \in Handlers : LInstall(h)
    \/ \E t \in LockTasks \ {"gc"} : LClose(t)
    \/ LStopRange
    \/ LStopClear
    \/ LCreateInsert
    \/ LBridgeDelete

NextLocks ==
    \/ \E t \in LockTasks : LockTable(t)
    \/ \E t \in LockTasks : LockAlloc(t)
    \/ GcLockedStep
    \/ TaskLockedStep
    \/ \E h \in Handlers : LAccept(h)
    \/ \E h \in Handlers, ok \in BOOLEAN : LRead(h, ok)
    \/ \E h \in Handlers : LNak(h)
    \/ \E h \in Handlers, role \in {"S", "C", "none"} : LAck(h, role)
    \/ LGcTick
    \/ LCollectorExit
    \/ LStopCancel
    \/ LStopWaited
    \/ LCreateCall
    \/ \E f \in FlowTasks : LCopyEnds(f)
    \/ LBridgeWaited

SpecLocks == Init /\ [][NextLocks]_vars

\* A task that holds a lock goes on to its Unlock, and sync.Mutex hands a
\* lock that is free again and again to the tasks that wait for it.  Only the
\* collector comes back for m.mu without end, so the other tasks are taken
\* together.
FairLocks ==
    /\ SpecLocks
    /\ WF_vars(GcLockedStep)
    /\ WF_vars(TaskLockedStep)
    /\ WF_vars(\E t \in LockTasks : LockAlloc(t))
    /\ WF_vars(LockTable("gc"))
    /\ SF_vars(\E t \in LockTasks \ {"gc"} : LockTable(t))

(***************************************************************************)
(* Properties.                                                             *)
(***************************************************************************)
\* The request a handler in "install" or "done" authenticated.
ReqOf(c) == UnmarshalRequest(hreq[c].data)

SenderOf(c) == IDFromBytes(ReqOf(c).SenderPeerId).id

AlreadyBridgedErrors == {"server already bridged", "client already bridged"}

\* C1: a filled side slot is never given another connection; a handshake that
\* authenticated for an occupied side returns an error and leaves the
\* allocation, the installed connection and its open state as they are, and a
\* handler that returned an error closes its own connection.
C1_SlotNeverOverwritten ==
    [][\A a \in Allocs :
         /\ alloc[a].sideS # Nil => alloc'[a].sideS = alloc[a].sideS
         /\ alloc[a].sideC # Nil => alloc'[a].sideC = alloc[a].sideC
         /\ \A c \in Conns :
              /\ ( /\ hpc[c] = "install"
                   /\ ha[c] = a
                   /\ hpc'[c] # "install"
                   /\ (IF SenderOf(c) = alloc[a].serverPeerID
                       THEN alloc[a].sideS # Nil ELSE alloc[a].sideC # Nil) )
                 => /\ hpc'[c] = "failed"
                    /\ herr'[c] \in AlreadyBridgedErrors
                    /\ alloc' = alloc
                    /\ closed' = closed
              /\ (hpc[c] = "failed" /\ hpc'[c] # "failed") => closed'[c]
      ]_vars

C1_Witness ==
    \E c \in Conns, a \in Allocs :
        /\ hpc[c] = "failed"
        /\ herr[c] \in AlreadyBridgedErrors
        /\ alloc[a].sideS \notin {Nil, c}
        /\ ~closed[alloc[a].sideS]

\* A step of gc.
GcActs == gcVars' # gcVars

\* C2: no step of gc removes from the table, or closes a connection of, an
\* allocation that has both sides installed.
C2_GcSparesBridged ==
    [][\A a \in Allocs :
         (GcActs /\ Bridged(a))
         => /\ InTable(a) => InTable(a)'
            /\ \A c \in Sides(a) : closed'[c] = closed[c]
      ]_vars

\* C3: a connection in a side slot sent a HandshakeRequest that names the
\* allocation's stream id and carries a tag that verifies under the
\* allocation's token; in side_s its sender is the server peer, in side_c its
\* sender is the client peer and not the server peer.
Authenticated(c, a) ==
    /\ hreq[c].hdr.Type = RelayTypeHandshakeRequest
    /\ ReqOf(c).StreamId = alloc[a].streamID
    /\ hreq[c].sum = buildRelayHMAC(alloc[a].token, hreq[c].hdr, hreq[c].data)

C3_InstalledAuthenticated ==
    \A a \in Allocs :
        /\ alloc[a].sideS # Nil
           => /\ Authenticated(alloc[a].sideS, a)
              /\ SenderOf(alloc[a].sideS) = alloc[a].serverPeerID
        /\ alloc[a].sideC # Nil
           => /\ Authenticated(alloc[a].sideC, a)
              /\ SenderOf(alloc[a].sideC) = alloc[a].clientPeerID
              /\ SenderOf(alloc[a].sideC) # alloc[a].serverPeerID

C3_Witness == \E a \in Allocs : Bridged(a)

\* C4: when Stop returns the table is empty and every connection installed
\* into a side slot of any allocation is closed.
C4_StopClosesEverything ==
    [][(stopPc = "wait" /\ stopPc' = "returned")
       => /\ \A id \in StreamIds : allocations'[id] = Nil
          /\ \A a \in Allocs : \A c \in Sides(a) : closed'[c]
      ]_vars

\* The scheduling the liveness of a bridge rests on: a goroutine that can run
\* does run (the flows, the sweep of gc), and sync.Mutex does not starve the
\* bridge that waits for m.mu while the collector takes it again and again.
FairRelay ==
    /\ SpecRelay
    /\ \A a \in Allocs, f \in Flows : WF_vars(FlowCopy(a, f)) /\ WF_vars(FlowExit(a, f))
    /\ WF_vars(GcClose)
    /\ WF_vars(GcEnd)
    /\ \A id \in StreamIds : WF_vars(GcVisit(id))
    /\ \A a \in Allocs : SF_vars(BridgeRemove(a))

SideClosed(a) == \E c \in Sides(a) : peerClosed[c] \/ closed[c]

BridgeGone(a) == ~InTable(a) /\ \A c \in Sides(a) : closed[c]

\* C5: a bridged allocation one of whose sides closes is eventually absent
\* from the table with both of its connections closed.
C5_BridgeEndsAndIsRemoved ==
    \A a \in Allocs : (Bridged(a) /\ SideClosed(a)) ~> (Bridged(a) /\ BridgeGone(a))

\* The bridge of an allocation ran to its end after a peer closed, with the
\* manager still running.
C5_Witness ==
    \E a \in Allocs :
        /\ Bridged(a)
        /\ \E c \in Sides(a) : peerClosed[c]
        /\ bpc[a] = "done"
        /\ BridgeGone(a)
        /\ stopPc = "idle"

\* The connections that are a side of a bridged allocation.
BridgedConns == UNION {Sides(a) : a \in {b \in Allocs : Bridged(b)}}

\* C6: what has been written to one side of a bridged allocation is exactly
\* the bytes read so far from the other side of the same allocation, in the
\* order that side sent them behind its handshake; each direction on its own;
\* a connection outside a bridge is written no payload.
C6_BytesRelayedInOrder ==
    /\ \A a \in Allocs :
         Bridged(a)
         => /\ alloc[a].sideS # alloc[a].sideC
            /\ \A src \in Sides(a), dst \in Sides(a) :
                 src # dst
                 => /\ nread[src] <= nsent[src]
                    /\ out[dst] = SubSeq(Payload(src), 1, nread[src])
    /\ \A a \in Allocs, b \in Allocs :
         (a # b /\ Bridged(a) /\ Bridged(b)) => Sides(a) \cap Sides(b) = {}
    /\ \A c \in Conns \ BridgedConns : out[c] = <<>>

\* Both directions of one bridge have carried payload, one of them two bytes.
C6_Witness ==
    \E a \in Allocs :
        /\ Bridged(a)
        /\ out[alloc[a].sideS] = SubSeq(Payload(alloc[a].sideC), 1, 2)
        /\ out[alloc[a].sideC] = SubSeq(Payload(alloc[a].sideS), 1, 1)

\* The connection was sent, as its only frame, the OK ack under a's token.
SentOkAck(c, a) == acks[c] = <<AckFrame(TRUE, ErrTextNone, alloc[a].token)>>

\* C7: a connection that a step installs into a side slot had been sent the OK
\* ack under the allocation's token before that step; a bridge is launched,
\* and a payload byte is written to a connection, only when both connections
\* of the allocation had been sent their OK ack.
C7_AckPrecedesBridging ==
    [][\A a \in Allocs :
         /\ \A c \in Conns :
              (c \in Sides(a)' /\ c \notin Sides(a)) => SentOkAck(c, a)
         /\ nBridge'[a] # nBridge[a] => \A c \in Sides(a)' : SentOkAck(c, a)
         /\ \A c \in Sides(a) :
              out'[c] # out[c] => (Bridged(a) /\ \A d \in Sides(a) : SentOkAck(d, a))
      ]_vars

C7_Witness ==
    \E a \in Allocs :
        /\ Bridged(a)
        /\ \A c \in Sides(a) : SentOkAck(c, a) /\ out[c] # <<>>

\* The bytes are one whole HandshakeRequest frame whose payload decodes.
IsHandshake(in) ==
    /\ ReadRelayFrameRaw(in).err = "nil"
    /\ ReadRelayFrameRaw(in).hdr.Type = RelayTypeHandshakeRequest
    /\ UnmarshalRequest(ReadRelayFrameRaw(in).data).err = "nil"

NamedStream(in) == UnmarshalRequest(ReadRelayFrameRaw(in).data).StreamId

NamedSender(in) == IDFromBytes(UnmarshalRequest(ReadRelayFrameRaw(in).data).SenderPeerId)

\* The handshake names the stream id under which the table holds a.
NamesLive(in, a) == InTable(a) /\ IsHandshake(in) /\ NamedStream(in) = alloc[a].streamID

\* The tag of the frame is the HMAC of its header and data under a's token.
TagVerifies(in, a) ==
    ReadRelayFrameRaw(in).hmacSum =
        buildRelayHMAC(alloc[a].token, ReadRelayFrameRaw(in).hdr, ReadRelayFrameRaw(in).data)

\* The handler of c takes its step from the read to the ack.
HandshakeStep(c) == hpc[c] = "read" /\ hpc'[c] # "read"

\* The goroutine of a handler that returned err closes the connection.
ClosesAfter(c, err) == (hpc[c] = "failed" /\ herr[c] = err /\ hpc'[c] # "failed") => closed'[c]

\* C8: the handler of a handshake that names a stream id absent from the table
\* writes one frame, HandshakeAck{ok=false, "no such stream"} under the zero
\* token, while the connection is open, leaves the table and the allocations
\* as they are, and the connection is closed next.
C8_NoSuchStreamNak ==
    [][\A c \in Conns :
         /\ HandshakeStep(c) => \A in \in PeerInputs, wfail \in BOOLEAN :
              (IsHandshake(in) /\ LookupAlloc(NamedStream(in)) = Nil /\ Handshake(c, in, wfail))
              => /\ acks'[c] = <<AckFrame(FALSE, ErrTextNoSuchStream, ZeroToken)>>
                 /\ ~closed[c] /\ ~closed'[c]
                 /\ hpc'[c] = "failed"
                 /\ herr'[c] = "allocation not found"
                 /\ allocations' = allocations
                 /\ alloc' = alloc
         /\ ClosesAfter(c, "allocation not found")
      ]_vars

C8_Witness ==
    \E c \in Conns :
        /\ herr[c] = "allocation not found"
        /\ acks[c] = <<AckFrame(FALSE, ErrTextNoSuchStream, ZeroToken)>>
        /\ \E id \in StreamIds : allocations[id] # Nil

\* C9: the handler of a handshake that names a live allocation with a tag that
\* does not verify under its token writes HandshakeAck{ok=false, "hmac
\* mismatch"} under the allocation's token, fills no side slot, leaves the
\* table as it is, and the connection is closed next.
C9_HmacMismatchNak ==
    [][\A c \in Conns :
         /\ HandshakeStep(c) => \A in \in PeerInputs, wfail \in BOOLEAN, a \in Allocs :
              ( /\ NamesLive(in, a)
                /\ ~TagVerifies(in, a)
                /\ Handshake(c, in, wfail) )
              => /\ acks'[c] = <<AckFrame(FALSE, ErrTextHmacMismatch, alloc[a].token)>>
                 /\ ~closed[c] /\ ~closed'[c]
                 /\ hpc'[c] = "failed"
                 /\ herr'[c] = "hmac mismatch"
                 /\ allocations' = allocations
                 /\ alloc' = alloc
         /\ ClosesAfter(c, "hmac mismatch")
      ]_vars

C9_Witness ==
    \E c \in Conns, a \in Allocs :
        /\ herr[c] = "hmac mismatch"
        /\ InTable(a)
        /\ acks[c] = <<AckFrame(FALSE, ErrTextHmacMismatch, alloc[a].token)>>

\* C10: the handler of a handshake that verifies under the allocation's token
\* and whose sender is a peer id equal to neither the server's nor the
\* client's returns BadPeer, writes no frame, fills no side slot, and the
\* connection is closed next.
C10_BadPeerSilent ==
    [][\A c \in Conns :
         /\ HandshakeStep(c) => \A in \in PeerInputs, wfail \in BOOLEAN, a \in Allocs :
              ( /\ NamesLive(in, a)
                /\ TagVerifies(in, a)
                /\ NamedSender(in).err = "nil"
                /\ NamedSender(in).id \notin {alloc[a].serverPeerID, alloc[a].clientPeerID}
                /\ Handshake(c, in, wfail) )
              => /\ acks'[c] = <<>>
                 /\ hpc'[c] = "failed"
                 /\ herr'[c] = "bad peer"
                 /\ allocations' = allocations
                 /\ alloc' = alloc
         /\ ClosesAfter(c, "bad peer")
      ]_vars

C10_Witness ==
    \E c \in Conns :
        /\ herr[c] = "bad peer"
        /\ acks[c] = <<>>
        /\ ~closed[c]

\* The errors handleConn returns.
HandlerErrors ==
    {"read", "bad magic", "bad version", "unexpected type", "bad payload",
     "allocation not found", "hmac mismatch", "bad peer id", "bad peer", "write ack",
     "server already bridged", "client already bridged"}

\* C11: the step in which a handler returns an error, and the step in which
\* its goroutine then ends, leave the table and every allocation with its side
\* slots as they are; the goroutine of a failed handler ends by closing the
\* handler's connection, so that the connection of every ended failed handler
\* is closed.
C11_FailedHandlerLeavesTable ==
    /\ [][\A c \in Conns :
            /\ (hpc[c] # "failed" /\ hpc'[c] = "failed")
               => /\ herr'[c] \in HandlerErrors
                  /\ allocations' = allocations
                  /\ alloc' = alloc
            /\ (hpc[c] = "failed" /\ hpc'[c] # "failed")
               => /\ hpc'[c] = "closed"
                  /\ closed'[c]
                  /\ allocations' = allocations
                  /\ alloc' = alloc
       ]_vars
    /\ [](\A c \in Conns : hpc[c] = "closed" => closed[c])

\* A handler failed on an occupied side and its connection was closed, beside
\* the allocation that still holds the connection installed first.
C11_Witness ==
    \E c \in Conns, a \in Allocs :
        /\ hpc[c] = "closed"
        /\ closed[c]
        /\ InTable(a)
        /\ Sides(a) # {}
        /\ c \notin Sides(a)

\* The ticker of the collector goroutine fires every five seconds: while the
\* collector runs, sweep follows sweep.
FairCollector == FairRelay /\ WF_vars(GcBegin)

\* The age of the allocation at time t is above its ttl.
AgeExceedsTtl(a, t) == t - alloc[a].created > alloc[a].ttl

\* The allocation was made and the table holds nothing under its stream id.
Removed(a) == a \in 1..nAllocs /\ LookupAlloc(alloc[a].streamID) = Nil

\* C12: while the manager runs, an allocation in the table whose age exceeds
\* its ttl and that is not bridged is eventually removed (or has become
\* bridged, or the manager was cancelled); a sweep ends with every allocation
\* that was expired when it began either removed or bridged; and a handshake
\* that names the stream id of a removed allocation is answered by the "no
\* such stream" failure ack.
C12_ExpiredUnbridgedIsReaped ==
    /\ \A a \in Allocs :
         (collPc = "run" /\ ~ctxDone /\ InTable(a) /\ AgeExceedsTtl(a, now) /\ ~Bridged(a))
         ~> (~InTable(a) \/ Bridged(a) \/ ctxDone)
    /\ [][(gcPc = "sweep" /\ gcPc' = "idle")
          => \A a \in Allocs : (InTable(a) /\ AgeExceedsTtl(a, gcNow)) => Bridged(a)
       ]_vars
    /\ [][\A c \in Conns :
            HandshakeStep(c) => \A in \in HolderInputs, a \in Allocs :
              ( /\ Removed(a)
                /\ IsHandshake(in)
                /\ NamedStream(in) = alloc[a].streamID
                /\ Handshake(c, in, FALSE) )
              => /\ acks'[c] = <<AckFrame(FALSE, ErrTextNoSuchStream, ZeroToken)>>
                 /\ herr'[c] = "allocation not found"
       ]_vars

\* The collector of the running manager has removed a half-connected
\* allocation, and a handshake for its stream id got the failure ack.
C12_Witness ==
    \E a \in Allocs, c \in Conns :
        /\ Removed(a)
        /\ Sides(a) # {}
        /\ ~Bridged(a)
        /\ collPc = "run"
        /\ ~ctxDone
        /\ c \notin Sides(a)
        /\ herr[c] = "allocation not found"
        /\ acks[c] = <<AckFrame(FALSE, ErrTextNoSuchStream, ZeroToken)>>

\* The goroutines of the manager that have not ended.
HandlersRunning == {c \in Conns : hpc[c] \in {"read", "install", "failed"}}

BridgesRunning == {a \in Allocs : bpc[a] = "wait" \/ \E f \in Flows : flow[a][f] = "run"}

\* C13: when Stop returns, the acceptor, the collector, every handshake
\* handler and every bridge with both of its copy flows have ended.
C13_StopWaitsForAllTasks ==
    [][(stopPc = "wait" /\ stopPc' = "returned")
       => /\ acceptPc' # "run"
          /\ collPc' # "run"
          /\ HandlersRunning' = {}
          /\ BridgesRunning' = {}
      ]_vars

\* A call of Stop after an earlier call that stopped the started manager: the
\* listener is closed already.
LaterStopBegins ==
    stopPc \in {"returned", "returned again"} /\ stopPc' \in {"wait", "wait again"}

LaterStopReturns == stopPc = "wait again" /\ stopPc' = "returned again"

\* What a later Stop leaves as the first one did: the started flag, the
\* closed listener, the cancelled context, the ended acceptor and collector.
StoppedState == <<started, lis, ctxDone, acceptPc, collPc>>

\* C14: a later call of Stop on the stopped manager changes nothing of the
\* stopped state, finds nothing to wait for, and returns with the table empty,
\* the listener closed and no task of the manager running.
C14_StopIdempotent ==
    /\ [][(lis = "closed" /\ LaterStopBegins)
          => (StoppedState' = StoppedState /\ WgCount' = 0)
       ]_vars
    /\ [][(lis = "closed" /\ WgCount = 0) => WgCount' = 0]_vars
    /\ [][(lis = "closed" /\ LaterStopReturns)
          => /\ StoppedState' = StoppedState
             /\ \A id \in StreamIds : allocations'[id] = Nil
             /\ lis' = "closed"
             /\ acceptPc' # "run"
             /\ collPc' # "run"
             /\ HandlersRunning' = {}
             /\ BridgesRunning' = {}
       ]_vars

\* The state of the manager apart from what Start returned.
ManagerState == <<now, mgrVars, gcVars, tableVars, handlerVars, connVars, bridgeVars>>

\* C15: a call of Start on a started manager returns the "already started"
\* error and changes nothing: listener, acceptor, collector, table and all the
\* rest of the manager stay as they are.
C15_StartTwiceFails ==
    [][(started /\ startRet' # startRet)
       => /\ startRet' = "already started"
          /\ ManagerState' = ManagerState
      ]_vars

\* Start was refused on the running manager that holds an allocation.
C15_Witness ==
    /\ startRet = "already started"
    /\ lis = "open"
    /\ acceptPc = "run"
    /\ collPc = "run"
    /\ \E a \in Allocs : InTable(a)

\* The tokens of the allocations made so far.
TokensInUse == {alloc[b].token : b \in 1..nAllocs}

\* C16: a call of CreateStream whose randomness source works inserts, in
\* whatever state the manager is, exactly one allocation with the given peer
\* ids and ttl, a token no allocation had before, and empty side slots, and
\* returns its stream id, its token and the manager's listen address; a call
\* that returns an error inserts nothing.
C16_CreateStreamInserts ==
    /\ [][nAllocs' # nAllocs
          => \A sp \in PeerIds, cp \in PeerIds, ttl \in TTLs, id \in FreshStreamIds :
               CreateStream(sp, cp, ttl, id)
               => LET a == nAllocs + 1
                  IN  /\ nAllocs' = a
                      /\ alloc'[a].token \notin TokensInUse \cup {ZeroToken}
                      /\ alloc'[a] = [streamID |-> id, token |-> alloc'[a].token,
                                      serverPeerID |-> sp, clientPeerID |-> cp,
                                      sideS |-> Nil, sideC |-> Nil,
                                      created |-> now, ttl |-> ttl]
                      /\ allocations'[id] = a
                      /\ \A b \in Allocs \ {a} : alloc'[b] = alloc[b]
                      /\ \A other \in StreamIds \ {id} : allocations'[other] = allocations[other]
                      /\ cret'[a] = [streamID |-> id, token |-> alloc'[a].token,
                                     addr |-> ":24002", err |-> "nil"]
       ]_vars
    /\ [][nCreateFail' # nCreateFail => (tableVars' = tableVars /\ cret' = cret)]_vars

\* One call failed for want of randomness; another inserted an allocation
\* after Stop had returned.
C16_Witness ==
    \E a \in Allocs :
        /\ nCreateFail = 1
        /\ stopPc = "returned"
        /\ InTable(a)
        /\ cret[a].err = "nil"
        /\ cret[a].streamID = alloc[a].streamID

\* C17: CreateStream never returns a stream id that the table holds, and never
\* takes an allocation out of the table.
C17_StreamIdsUnique ==
    [][nAllocs' # nAllocs
       => /\ LookupAlloc(cret'[nAllocs'].streamID) = Nil
          /\ \A b \in Allocs : InTable(b) => InTable(b)'
      ]_vars

\* The scheduling of the two loops of Start: a goroutine that can leave its
\* loop does leave it, and the sweep of gc runs to its end.
FairLifecycle ==
    /\ SpecLifecycle
    /\ WF_vars(AcceptExit)
    /\ WF_vars(CollectorExit)
    /\ WF_vars(GcClose)
    /\ WF_vars(GcEnd)
    /\ \A id \in StreamIds : WF_vars(GcVisit(id))

\* C18: once the context of the manager is cancelled the acceptor and the
\* collector eventually exit, and no connection is accepted and handed to a
\* handler from then on; an error of Accept while the context is not
\* cancelled leaves the acceptor in its loop.
C18_CancellationStopsLoops ==
    /\ ctxDone ~> (acceptPc # "run" /\ collPc # "run")
    /\ [][ctxDone => nConns' = nConns]_vars
    /\ [][(nAcceptErr' # nAcceptErr /\ ~ctxDone) => acceptPc' = "run"]_vars

\* C19: a frame of any type, token and data of at most 65535 bytes, written
\* by WriteRelayFrame, is read back by ReadRelayFrameRaw as the header (len of
\* the data, version 1, the type), the same data and a tag that VerifyRelayHMAC
\* accepts under the same token; the read takes the bytes of the frame and
\* none of what follows it.
C19_FrameRoundTrip ==
    /\ (cpc # "idle" /\ Len(cin.data) <= 65535) => cwire.err = "nil"
    /\ cpc \in {"read", "verified"}
       => /\ crd.err = "nil"
          /\ crd.hdr = [Length |-> Len(cin.data), Version |-> 1, Type |-> cin.typ]
          /\ crd.data = cin.data
          /\ crd.used = Len(cwire.bytes)
          /\ VerifyRelayHMAC(crd.hdr, cin.token, crd.data, crd.hmacSum) = "nil"
    /\ (cpc = "verified" /\ cver.token = cin.token /\ cver.what = "none") => cver.err = "nil"

\* A frame whose length needs both bytes of the length field was written,
\* read back and verified.
C19_Witness ==
    /\ cpc = "verified"
    /\ Len(cin.data) = 257
    /\ crd.hdr.Length = 257
    /\ crd.data = cin.data
    /\ cver.token = cin.token
    /\ cver.what = "none"
    /\ cver.err = "nil"

\* C20: for a frame written under token T, VerifyRelayHMAC fails with the
\* HMAC mismatch under every other token, and under T as well when the
\* header's length, version or type, or the data, is not what was written.
C20_TagBindsTokenHeaderData ==
    cpc = "verified"
    => /\ cver.token # cin.token => cver.err = "hmac mismatch"
       /\ cver.what # "none" => cver.err = "hmac mismatch"

\* Verification under the writer's token refused a frame whose type was
\* changed.
C20_Witness ==
    /\ cpc = "verified"
    /\ cver.token = cin.token
    /\ cver.what = "type"
    /\ cver.err = "hmac mismatch"

\* The length field of the frame on the wire, as ReadRelayFrameRaw decodes it.
WireLength(bytes) == Uint16(SubSeq(bytes, 5, 6))

\* C21: WriteRelayFrame accepts data of every length up to 65535 and writes
\* magic, the length field equal to len(data) without wrap-around, version,
\* type, the data and the tag of header and data; for empty data the length
\* field is zero and the tag is over the 8 header bytes alone; for data of
\* 65536 bytes or more it returns the too-large error and writes nothing.
C21_WriteLengthExact ==
    cpc # "idle"
    => /\ Len(cin.data) <= 65535
          => /\ cwire.err = "nil"
             /\ Len(cwire.bytes) = 8 + Len(cin.data) + 1
             /\ SubSeq(cwire.bytes, 1, 4) = <<70, 76, 89, 82>>
             /\ WireLength(cwire.bytes) = Len(cin.data)
             /\ cwire.bytes[5] = Len(cin.data) % 256
             /\ cwire.bytes[6] = Len(cin.data) \div 256
             /\ cwire.bytes[7] = 1
             /\ cwire.bytes[8] = cin.typ
             /\ SubSeq(cwire.bytes, 9, 8 + Len(cin.data)) = cin.data
             /\ cwire.bytes[Len(cwire.bytes)] =
                  <<cin.token, SubSeq(cwire.bytes, 1, 8 + Len(cin.data))>>
       /\ Len(cin.data) = 0
          => /\ cwire.bytes[5] = 0
             /\ cwire.bytes[6] = 0
             /\ cwire.bytes[9] = <<cin.token, <<70, 76, 89, 82, 0, 0, 1, cin.typ>>>>
       /\ Len(cin.data) >= 65536
          => /\ cwire.err = "too large"
             /\ cwire.bytes = <<>>
             /\ cpc = "failed"

\* A frame of 256 data bytes was written: the low byte of its length field is
\* zero and the high byte one.
C21_Witness ==
    /\ cpc = "written"
    /\ Len(cin.data) = 256
    /\ cwire.err = "nil"
    /\ cwire.bytes[5] = 0
    /\ cwire.bytes[6] = 1

\* The state of an allocation, derived from its two side slots.
StateOf(a) ==
    IF alloc[a].sideS # Nil /\ alloc[a].sideC # Nil THEN "Bridged"
    ELSE IF alloc[a].sideS # Nil \/ alloc[a].sideC # Nil THEN "HalfConnected"
    ELSE "Allocated"

\* The step takes the allocation out of the table.
LeavesTable(a) == InTable(a) /\ ~InTable(a)'

\* The step is the return of a call of Stop.
StopReturns ==
    \/ stopPc = "wait" /\ stopPc' = "returned"
    \/ stopPc = "wait again" /\ stopPc' = "returned again"

\* C22: an allocation in the table is Allocated, HalfConnected or Bridged by
\* its side slots; a filled slot keeps its connection and a step fills at most
\* one slot (Allocated to HalfConnected to Bridged, never backwards); and an
\* allocation leaves the table only in a step of gc while it is expired and
\* not Bridged, in the last step of its bridge, or at the return of Stop.
C22_AllocationLifecycle ==
    /\ [](\A a \in Allocs :
            InTable(a) => /\ StateOf(a) \in {"Allocated", "HalfConnected", "Bridged"}
                          /\ StateOf(a) = "Bridged" <=> Bridged(a))
    /\ [][\A a \in Allocs :
            /\ alloc[a].sideS # Nil => alloc'[a].sideS = alloc[a].sideS
            /\ alloc[a].sideC # Nil => alloc'[a].sideC = alloc[a].sideC
            /\ (a \in 1..nAllocs /\ StateOf(a) = "Allocated") => StateOf(a)' # "Bridged"
            /\ LeavesTable(a)
               => \/ GcActs /\ AgeExceedsTtl(a, gcNow) /\ StateOf(a) # "Bridged"
                  \/ bpc[a] = "wait" /\ bpc'[a] = "done"
                  \/ StopReturns
       ]_vars

\* The step ends a sweep of gc: its range loop is over.
SweepEnds == gcPc = "sweep" /\ gcPc' = "idle"

\* C23: a step of a collector sweep takes out of the table only an allocation
\* whose age is above its ttl and that lacks a side, and closes the installed
\* connection of that allocation; an allocation whose age is at most its ttl,
\* and an allocation with both sides installed, stays in the table with its
\* slots and the open state of its connections as they are; and when the
\* sweep ends no allocation that is expired and lacks a side is in the table.
C23_SweepRemovesExpiredUnbridged ==
    /\ [][GcActs
          => \A a \in Allocs :
               /\ LeavesTable(a)
                  => /\ AgeExceedsTtl(a, gcNow)
                     /\ ~Bridged(a)
                     /\ \A c \in Sides(a) : closed'[c]
               /\ (InTable(a) /\ (~AgeExceedsTtl(a, gcNow) \/ Bridged(a)))
                  => /\ InTable(a)'
                     /\ alloc'[a] = alloc[a]
                     /\ \A c \in Sides(a) : closed'[c] = closed[c]
       ]_vars
    /\ [][SweepEnds
          => \A a \in Allocs : (InTable(a) /\ AgeExceedsTtl(a, gcNow)) => Bridged(a)
       ]_vars

\* The step launches startBridge for the allocation.
BridgeStarts(a) == nBridge'[a] # nBridge[a]

\* The handler of c leaves its critical section of a.mu having installed c
\* into the allocation.
InstallsInto(c, a) ==
    /\ hpc[c] = "install"
    /\ ha[c] = a
    /\ hpc'[c] = "done"
    /\ c \notin Sides(a)
    /\ c \in Sides(a)'

\* C24: the bridge of an allocation is started at most once, it is started
\* exactly when both side slots are filled, and it is started in the step
\* (the critical section of a.mu) in which a handler fills the second of the
\* two slots, with both copy flows running over two distinct connections.
C24_BridgeStartedOnce ==
    /\ [](\A a \in Allocs :
            /\ nBridge[a] <= 1
            /\ nBridge[a] = 1 <=> Bridged(a)
            /\ bpc[a] # "none" => Bridged(a)
            /\ Bridged(a) => alloc[a].sideS # alloc[a].sideC)
    /\ [][\A a \in Allocs :
            /\ BridgeStarts(a)
               => /\ nBridge[a] = 0
                  /\ nBridge'[a] = 1
                  /\ Cardinality(Sides(a)) = 1
                  /\ Bridged(a)'
                  /\ \E c \in Conns : InstallsInto(c, a)
                  /\ bpc'[a] = "wait"
                  /\ flow'[a] = [A |-> "run", B |-> "run"]
            /\ (~Bridged(a) /\ Bridged(a)') => BridgeStarts(a)
       ]_vars

\* Both handlers of an allocation have returned, the second one having
\* started the bridge, which runs.
C24_Witness ==
    \E a \in Allocs :
        /\ nBridge[a] = 1
        /\ bpc[a] = "wait"
        /\ flow[a] = [A |-> "run", B |-> "run"]
        /\ \A c \in Sides(a) : hpc[c] = "done"
        /\ Cardinality(Sides(a)) = 2

\* The manager with allocations whose client peer may be the server peer
\* itself, under stream ids that do not collide, and the handshakes of the
\* peers that hold them.
NextSamePeer ==
    \/ ManagerStep
    \/ \E p \in ClientPeers, ttl \in TTLs : CreateStream(1, p, ttl, nAllocs + 1)
    \/ \E c \in Conns : HandleHolderHandshake(c)

SpecSamePeer == Init /\ [][NextSamePeer]_vars

\* The collector's ticker fires again and again, and a sweep runs to its end.
FairSamePeer ==
    /\ SpecSamePeer
    /\ WF_vars(GcBegin)
    /\ WF_vars(GcClose)
    /\ WF_vars(GcEnd)
    /\ \A id \in StreamIds : WF_vars(GcVisit(id))

\* The allocation was made for a server and a client with the same peer id.
SamePeer(a) == a \in 1..nAllocs /\ alloc[a].serverPeerID = alloc[a].clientPeerID

\* C25: for an allocation whose server and client peer ids are equal, a
\* handler that authenticated installs its connection into side_s when that
\* slot is empty and fails on the "server already bridged" guard otherwise;
\* side_c stays empty, no bridge is started, the allocation leaves the table
\* only by a sweep of the collector after its ttl or by Stop, and while the
\* collector runs the expired allocation is eventually removed.
C25_SamePeerNeverBridges ==
    /\ [](\A a \in Allocs :
            SamePeer(a) => (alloc[a].sideC = Nil /\ ~Bridged(a) /\ nBridge[a] = 0))
    /\ [][\A a \in Allocs, c \in Conns :
            (SamePeer(a) /\ hpc[c] = "install" /\ ha[c] = a /\ hpc'[c] # "install")
            => IF alloc[a].sideS = Nil
               THEN /\ alloc'[a] = [alloc[a] EXCEPT !.sideS = c]
                    /\ hpc'[c] = "done"
               ELSE /\ hpc'[c] = "failed"
                    /\ herr'[c] = "server already bridged"
                    /\ alloc' = alloc
       ]_vars
    /\ [][\A a \in Allocs :
            (SamePeer(a) /\ LeavesTable(a))
            => ((GcActs /\ AgeExceedsTtl(a, gcNow)) \/ StopReturns)
       ]_vars
    /\ \A a \in Allocs :
         (SamePeer(a) /\ InTable(a) /\ AgeExceedsTtl(a, now) /\ collPc = "run" /\ ~ctxDone)
         ~> (~InTable(a) \/ ctxDone)

\* The first handshake for a same-peer allocation sits in side_s, the second
\* one failed on the guard, and the collector has removed the allocation.
C25_Witness ==
    \E a \in Allocs, c \in Conns :
        /\ SamePeer(a)
        /\ alloc[a].sideS \notin {Nil, c}
        /\ alloc[a].sideC = Nil
        /\ herr[c] = "server already bridged"
        /\ Removed(a)
        /\ collPc = "run"
        /\ stopPc = "idle"

\* ReadRelayFrameRaw has returned on the followed connection.
ReadReturned == dpc \in {"handling", "copying", "failed", "closed", "cut"}

\* C26 as stated: the 10 s of the handshake run from the connection's first
\* byte, so that the read fails only on a connection whose first byte is 10 s
\* old; a connection whose frame is incomplete 10 s after its first byte is
\* eventually closed, and no ack is written to a closed connection; once the
\* read has returned the connection has no deadline and no Read of a copy
\* flow ends with a timeout.
C26_DeadlineFromFirstByte ==
    /\ [](derr = "read" => (dfirst # NoTime /\ dret >= dfirst + 10))
    /\ [](dpc \in {"failed", "closed"} => dacks = 0)
    /\ [](ReadReturned => deadline = NoTime)
    /\ [](dpc # "cut")
    /\ (dpc = "reading" /\ dfirst # NoTime /\ dclock >= dfirst + 10
          /\ dgot < Len(DeadlineFrame))
       ~> (dpc = "closed")

\* C26, amended: the 10 s run from the call of ReadRelayFrameRaw.  The read
\* fails exactly 10 s after the call, on a frame that is incomplete then; a
\* frame whose pieces have all arrived by then is accepted; the read never
\* lasts longer; a failed read is followed by the close of the connection,
\* to which no ack was written; once the read has returned the connection
\* has no deadline and no Read of a copy flow ends with a timeout.
C26_DeadlineFromReadCall ==
    /\ [](derr = "read" => (dret = dcall + 10 /\ dgot < Len(DeadlineFrame)))
    /\ [](derr = "nil" => (dret <= dcall + 10 /\ dgot = Len(DeadlineFrame)))
    /\ [](dpc = "reading" => (deadline = dcall + 10 /\ dclock <= deadline))
    /\ [](dpc \in {"failed", "closed"} => (derr = "read" /\ dacks = 0))
    /\ [](ReadReturned => deadline = NoTime)
    /\ [](dpc # "cut")
    /\ (dpc = "reading") ~> ReadReturned
    /\ (derr = "read") ~> (dpc = "closed")

\* Part of the peer's frame had arrived, its first byte less than 10 s ago,
\* when the read failed; the connection was closed without an ack.
C26_Witness ==
    /\ dpc = "closed"
    /\ derr = "read"
    /\ dgot > 0
    /\ dfirst > dcall
    /\ dret < dfirst + 10
    /\ dacks = 0

\* The peer has gone on to the noise transport.
DialProceeded ==
    \/ dialPc = "acked"
    \/ /\ dialPc = "returned"
       /\ dialRet.err \in {"nil", "noise new", "secure inbound", "secure outbound"}

\* The answer is one whole frame of type HandshakeAck, tagged under the
\* token, whose payload decodes to ok = true.
IsOkAckUnder(in, token) ==
    /\ ReadRelayFrameRaw(in).err = "nil"
    /\ ReadRelayFrameRaw(in).hmacSum =
         buildRelayHMAC(token, ReadRelayFrameRaw(in).hdr, ReadRelayFrameRaw(in).data)
    /\ ReadRelayFrameRaw(in).hdr.Type = 2
    /\ Len(ReadRelayFrameRaw(in).data) = 2
    /\ ReadRelayFrameRaw(in).data[1] = 1

\* C27: DialRelayStream goes on to the secure transport only when the answer
\* it read is one frame that verifies under its token, has type HandshakeAck
\* and carries ok = true; at a peer whose token is not all-zero the relay's
\* "no such stream" ack fails HMAC verification; and every return without a
\* secure connection returns an error with the connection, if one was made,
\* closed, while the successful return leaves it open.
C27_DialProceedsOnOkAck ==
    /\ DialProceeded => IsOkAckUnder(dialIn.answer, dialIn.token)
    /\ ( /\ dialIn.answer = AckFrame(FALSE, ErrTextNoSuchStream, ZeroToken)
         /\ dialIn.token # ZeroToken
         /\ dialPc \notin {"idle", "dialed", "sent"}
         /\ dialRet.err \notin {"dial", "send handshake"} )
       => (dialPc = "returned" /\ dialRet.err = "ack hmac")
    /\ dialPc = "returned"
       => /\ dialRet.err # "none"
          /\ dialRet.sconn <=> dialRet.err = "nil"
          /\ dialRet.err = "nil" => dialConn = "open"
          /\ dialRet.err \notin {"nil", "dial"} => dialConn = "closed"
          /\ dialRet.err = "dial" => dialConn = "none"

\* The peer holding a token read the relay's "no such stream" ack, failed
\* on its tag, closed the connection and returned the error.
C27_Witness ==
    /\ dialIn.answer = AckFrame(FALSE, ErrTextNoSuchStream, ZeroToken)
    /\ dialIn.token = 1
    /\ dialPc = "returned"
    /\ dialRet.err = "ack hmac"
    /\ dialConn = "closed"

\* The connection is a side of an allocation that the table holds or whose
\* bridge runs.
Reachable(c) == \E a \in Allocs : c \in Sides(a) /\ (InTable(a) \/ a \in BridgesRunning)

\* C28: a handler installs its connection only into an allocation that the
\* table holds at that moment, and every connection whose handler returned
\* without an error is closed or is a side of an allocation that is in the
\* table or has its bridge running.
C28_InstallOnlyIntoLive ==
    /\ [][\A c \in Conns, a \in Allocs : InstallsInto(c, a) => InTable(a)]_vars
    /\ [](\A c \in Conns : (hpc[c] = "done" /\ ~closed[c]) => Reachable(c))

\* What a task does on the network: reading a frame, writing an ack, copying.
IoPcs == {"read", "nak", "ack", "copy"}

LockWaiting(t) == MuWaiting(t) \/ AmuWaiting(t)

\* C29: a task takes m.mu only while it holds no a.mu (table lock first,
\* allocation lock second); a task that holds an a.mu neither waits for a
\* lock nor reads from or writes to a connection, and a task that holds m.mu
\* does not wait for m.mu; hence no task waits for a lock for ever.
C29_LockOrderNoDeadlock ==
    /\ [][\A t \in LockTasks : (lmu' = t /\ lmu # t) => lamu # t]_vars
    /\ [](\A t \in LockTasks :
            /\ lamu = t => (~LockWaiting(t) /\ lpc[t] \notin IoPcs)
            /\ lmu = t => ~MuWaiting(t))
    /\ \A t \in LockTasks : LockWaiting(t) ~> ~LockWaiting(t)

\* gc holds m.mu and waits for the a.mu that a handler holds while it
\* installs; a copy flow waits for the same a.mu and Stop for m.mu.
C29_Witness ==
    /\ lmu = "gc"
    /\ lpc["gc"] = "close wait"
    /\ lamu \in Handlers
    /\ lpc["stop"] = "wg wait"
    /\ lpc["create"] = "done"

\* C30: every call of Stop returns: on a manager never started, on one whose
\* bind failed, on a running one with handshakes in flight and with
\* allocations of any state, and on a stopped one.
C30_StopReturns ==
    /\ (stopPc = "wait") ~> (stopPc = "returned")
    /\ (stopPc = "wait again") ~> (stopPc = "returned again")

\* Stop waits for a handler that still reads while an allocation in the table
\* is half-connected.
C30_Witness ==
    /\ stopPc = "wait"
    /\ \E c \in Conns : hpc[c] = "read"
    /\ \E a \in Allocs : InTable(a) /\ Sides(a) # {} /\ ~Bridged(a)

\* A call of Start returns.
StartReturns == startRet' # startRet

\* C31: a Start that fails to bind the listener returns the error and leaves
\* the manager not started, with no acceptor and no collector running; as long
\* as no listener was ever bound, no call of Start is rejected as already
\* started.
C31_BindFailureLeavesNotStarted ==
    /\ [][(StartReturns /\ startRet' = "listen error")
          => (~started' /\ acceptPc' # "run" /\ collPc' # "run")
       ]_vars
    /\ [][(StartReturns /\ lis = "nil") => startRet' # "already started"]_vars

=============================================================================
